---- MODULE Spec2Model ----
(***************************************************************************)
(* Request-orchestration core of thinktapflow-ai-core.                     *)
(*                                                                         *)
(*   batch processor   src/src/utils/batch.ts   createBatchProcessor       *)
(*   cache             src/src/utils/retry.ts   createCache                *)
(*   cache keys        src/src/utils/retry.ts   generateCacheKey           *)
(*   rate limiter      src/unnamed/part_005     createRateLimiter,         *)
(*                                              getRateLimiter             *)
(*   retry handler     src/src/utils/retry.ts   createRetryHandler         *)
(*   provider flow     src/src/factory/provider-factory.ts                 *)
(*                                              generateCompletion         *)
(*                                                                         *)
(* Time is counted in ticks of the clock, TicksPerSecond of them to the    *)
(* second; Date.now() is the number of the current tick.                   *)
(*                                                                         *)
(* JavaScript runs one job at a time: every action below is one job of the *)
(* event loop (a synchronous call made by the application, one microtask   *)
(* continuation of an async function, or one timer callback), executed     *)
(* from its first statement to the point where it returns or awaits.       *)
(***************************************************************************)
EXTENDS Integers, Sequences, FiniteSets, TLC

(***************************************************************************)
(* Bounds of the model.                                                    *)
(***************************************************************************)
NumIds == 3          \* request ids are 1..NumIds
MaxPriority == 1     \* request priorities are 0..MaxPriority
MaxSubmits == 3      \* addRequest is called at most MaxSubmits times
MaxProcessingDelay == 2  \* processingDelayMs is chosen in 1..MaxProcessingDelay ticks
MaxItems == 2        \* generateBatch is called with 1..MaxItems requests
MaxBatchSize == 2    \* batchSize is chosen in 1..MaxBatchSize at construction

NumKeys == 2         \* cache keys are 1..NumKeys
PadLen == 19         \* the long prompts share their first PadLen characters
SliceLen == 32       \* generateCacheKey keeps the first SliceLen digits of btoa

TicksPerSecond == 2  \* ticks of the clock in one second
MaxLimit == 2        \* requestsPerMinute is chosen in 1..MaxLimit
MaxRequests == 3     \* the limiters retain at most MaxRequests timestamps together
MaxClock == 4        \* the limiters are followed until tick MaxClock
MaxSleepers == 1     \* at most MaxSleepers callers are suspended in waitForSlot

NumCallers == 2      \* at most NumCallers calls of generateCompletion are in flight
MaxRetries == 1      \* maxRetries of the global retry handler
RetryLimit == 2      \* a retry handler is built with maxRetries in 0..RetryLimit
MaxAttempt == 4      \* calculateDelay is asked for the attempts 1..MaxAttempt
DefaultTtl == 2      \* defaultTtl of the global cache, in ticks
MaxTime == 2         \* the cache is followed for MaxTime ticks of the clock

Ids == 1..NumIds
Priorities == 0..MaxPriority

Min(a, b) == IF a < b THEN a ELSE b

(***************************************************************************)
(* Batch processor: state of one createBatchProcessor() instance.          *)
(***************************************************************************)
VARIABLES
  batchSize,      \* constructor parameter batchSize
  requests,       \* every BatchRequest object passed to addRequest, in call order
  responses,      \* the BatchResponse object created by the n-th addRequest call
  queue,          \* const queue: sequence of request objects (indexes into requests)
  results,        \* const results: Map id -> BatchResponse object (0: no entry)
  isProcessing,   \* let isProcessing
  batch,          \* the callbacks of the batch under Promise.allSettled
  loopPc,         \* where processQueue is suspended: "idle", "batch", "delay"
  promise,        \* state of the promise returned by the n-th addRequest call
  processor,      \* the function last passed to setProcessor ("none": never called)
  enteredBatch,   \* history: number of the batch in which request n was taken (0: not yet)
  batchCount,     \* history: number of batches taken so far
  loopStarts      \* history: number of times processQueue has entered its loop

batchVars == <<batchSize, requests, responses, queue, results, isProcessing, batch,
               loopPc, promise, processor, enteredBatch, batchCount, loopStarts>>

(***************************************************************************)
(* Cache: state of one createCache() instance, and the clock.              *)
(***************************************************************************)
VARIABLES
  now,            \* Date.now(), in ticks of the clock (it is positive: it starts at 1)
  maxSize,        \* constructor parameter maxSize
  cache,          \* const cache: the Map's entries, in the Map's (insertion) order
  currentSize,    \* let currentSize
  ret,            \* what the last call returned, when it was a get
  lastSet         \* history: per key the most recent set whose entry was not
                  \* deleted, cleared or evicted since (NoSet: none)

cacheVars == <<now, maxSize, cache, currentSize, ret, lastSet>>

(***************************************************************************)
(* Cache keys: two requests and the keys generateCacheKey gives them.      *)
(***************************************************************************)
VARIABLES
  request,        \* the arguments (provider, prompt, options) of two calls
  cacheKey        \* what generateCacheKey returned for each (NoKey: not called yet)

keyVars == <<request, cacheKey>>

(***************************************************************************)
(* Rate limiters: the registry and the createRateLimiter() instances.      *)
(***************************************************************************)
VARIABLES
  rateLimiters,      \* const rateLimiters: Map provider -> instance (0: no entry)
  limiterRequests,   \* const requests of the i-th instance created
  requestsPerMinute, \* parameter requestsPerMinute (the same default for all)
  windowSizeMs,      \* parameter windowSizeMs, in ticks
  lret,              \* what the last call on a limiter or the registry returned
  sleepers           \* the callers suspended in waitForSlot: their timers

limiterVars == <<rateLimiters, limiterRequests, requestsPerMinute, windowSizeMs,
                 lret, sleepers>>

(***************************************************************************)
(* Provider flow: the calls of generateCompletion in flight.               *)
(***************************************************************************)
VARIABLES
  flow            \* per caller, where its generateCompletion call stands

flowVars == <<flow>>

(***************************************************************************)
(* Retry handler: one createRetryHandler() instance and one call of its    *)
(* retry().                                                                *)
(***************************************************************************)
VARIABLES
  maxRetries,        \* parameter maxRetries
  baseDelayMs,       \* parameter baseDelayMs, in ticks
  maxDelayMs,        \* parameter maxDelayMs, in ticks
  backoffMultiplier, \* parameter backoffMultiplier
  retryPc,           \* where retry() stands: "idle", "running", "delay",
                     \* "returned", "thrown"
  attempt,           \* let attempt of the for loop
  calls,             \* history: the invocations of the operation, in order
  waits,             \* history: the delays retry() has waited or is waiting
  retryUntil,        \* the time its timer is set to
  retryRet,          \* what retry() returned or threw
  handlerRet         \* what the last isRetryableError or calculateDelay call returned

retryVars == <<maxRetries, baseDelayMs, maxDelayMs, backoffMultiplier, retryPc,
               attempt, calls, waits, retryUntil, retryRet, handlerRet>>

(***************************************************************************)
(* The drain loop's timer: processingDelayMs and the times of the loop.    *)
(***************************************************************************)
VARIABLES
  processingDelayMs, \* parameter processingDelayMs, in ticks
  delayUntil,        \* the time the loop's setTimeout is set to (0: no timer)
  settledAt,         \* history: when a callback of a batch last settled
  tookAt             \* history: when the last batch was taken

timerVars == <<processingDelayMs, delayUntil, settledAt, tookAt>>

vars == <<batchVars, cacheVars, keyVars, limiterVars, flowVars, retryVars, timerVars>>

\* What an operation of one component leaves alone.
cacheState == <<maxSize, cache, currentSize, ret, lastSet>>
notTimed == <<cacheVars, keyVars, limiterVars, flowVars, retryVars>>
notBatch == <<notTimed, timerVars>>
notCache == <<batchVars, keyVars, limiterVars, flowVars, retryVars, timerVars>>
notKey == <<batchVars, cacheVars, limiterVars, flowVars, retryVars, timerVars>>
notLimiter == <<batchVars, cacheState, keyVars, flowVars, retryVars, timerVars>>
notFlow == <<batchVars, keyVars, retryVars, timerVars>>
notRetry == <<batchVars, cacheState, keyVars, limiterVars, flowVars, timerVars>>

Terminal == {"completed", "failed"}

\* The processing functions an application may inject: one that resolves with
\* "text" for every request, one that throws Error("boom") for every request.
Fns == {"resolves", "throws"}

FnOutcome(f, req) ==
  IF f = "resolves" THEN [ok |-> TRUE, value |-> "text", msg |-> ""]
  ELSE [ok |-> FALSE, value |-> "", msg |-> "boom"]

InjectMsg == "processRequest function must be injected"

\* const processRequest = async (request) => { throw new Error(...) }.
\* setProcessor does Object.assign(processRequest, processor), which copies the
\* enumerable own properties of processor onto the stub and leaves the stub's
\* body as it is: whatever was injected, a call of processRequest throws.
processRequestResolves(req) == [ok |-> TRUE, value |-> "text", msg |-> ""]
processRequest(req) == [ok |-> FALSE, value |-> "", msg |-> InjectMsg]

\* queue.sort((a, b) => (b.priority || 0) - (a.priority || 0)): Array.prototype.sort
\* is stable; computed as an insertion sort that keeps equal priorities in order.
\* q is a sequence of indexes into reqs.
RECURSIVE InsertByPriorityBeforeTies(_, _, _)
InsertByPriorityBeforeTies(sorted, x, reqs) ==
  IF sorted = <<>> THEN <<x>>
  ELSE IF reqs[Head(sorted)].priority > reqs[x].priority
       THEN <<Head(sorted)>> \o InsertByPriorityBeforeTies(Tail(sorted), x, reqs)
       ELSE <<x>> \o sorted

RECURSIVE InsertByPriority(_, _, _)
InsertByPriority(sorted, x, reqs) ==
  IF sorted = <<>> THEN <<x>>
  ELSE IF reqs[Head(sorted)].priority >= reqs[x].priority
       THEN <<Head(sorted)>> \o InsertByPriority(Tail(sorted), x, reqs)
       ELSE <<x>> \o sorted

RECURSIVE SortByPriority(_, _)
SortByPriority(q, reqs) ==
  IF q = <<>> THEN <<>>
  ELSE InsertByPriority(SortByPriority(SubSeq(q, 1, Len(q) - 1), reqs), q[Len(q)], reqs)

\* const batch = queue.splice(0, batchSize): the batch taken, and what stays queued.
SpliceTakenOneMore(q) == SubSeq(q, 1, Min(batchSize + 1, Len(q)))
SpliceTaken(q) == SubSeq(q, 1, Min(batchSize, Len(q)))
SpliceRestDropsOne(q) == SubSeq(q, Min(batchSize, Len(q)) + 2, Len(q))
SpliceRest(q) == SubSeq(q, Min(batchSize, Len(q)) + 1, Len(q))

\* batch.map(async (request) => { const response = results.get(request.id)!; ...
\* One callback per request of the batch, run up to its first await: it holds the
\* response object the map has for the request's id at that moment (0: none, the
\* callback then throws on response.status and is settled at once).
Callbacks(taken, reqs, res) ==
  [k \in 1..Len(taken) |->
     [req |-> taken[k], obj |-> res[reqs[taken[k]].id],
      done |-> (res[reqs[taken[k]].id] = 0)]]

CallbackObjs(cbs) == {cbs[k].obj : k \in 1..Len(cbs)} \ {0}

\* response.status = 'processing' for the response of every callback of the batch.
MarkProcessingSkipped(resp, objs) == resp
MarkProcessing(resp, objs) ==
  [o \in 1..Len(resp) |->
     IF o \in objs THEN [resp[o] EXCEPT !.status = "processing"] ELSE resp[o]]

\* try { result = await processRequest(request); completed } catch { failed }:
\* the response object after the callback's await has settled with outcome out.
SettledResponse(r, out) ==
  IF out.ok THEN [r EXCEPT !.status = "completed", !.result = out.value]
  ELSE [r EXCEPT !.status = "failed", !.error = out.msg]

\* The responses after callback cb of the current batch has settled with outcome
\* out: only the response object the callback holds is written.
SettleCallbackFailsBatch(resp, cbs, k, out) ==
  [o \in 1..Len(resp) |->
     IF o = cbs[k].obj THEN SettledResponse(resp[o], out)
     ELSE IF ~out.ok /\ o \in CallbackObjs(cbs)
          THEN [resp[o] EXCEPT !.status = "failed", !.error = out.msg]
          ELSE resp[o]]
SettleCallback(resp, cbs, k, out) ==
  [resp EXCEPT ![cbs[k].obj] = SettledResponse(@, out)]

\* if (!isProcessing) processQueue(), and its first line
\* if (isProcessing || queue.length === 0) return: whether a submission that
\* leaves queue q enters the drain loop.
StartsLoopAlways(running, q) == TRUE
StartsLoopNever(running, q) == FALSE
StartsLoop(running, q) == ~running /\ Len(q) > 0

\* One iteration of while (queue.length > 0) up to await Promise.allSettled, from
\* queue q and responses resp: the values of the variables it leaves.
TakeBatch(q, reqs, resp, res) ==
  /\ queue' = SpliceRest(q)
  /\ batch' = Callbacks(SpliceTaken(q), reqs, res)
  /\ responses' = MarkProcessing(resp, CallbackObjs(Callbacks(SpliceTaken(q), reqs, res)))
  /\ isProcessing' = TRUE
  /\ loopPc' = "batch"
  /\ batchCount' = batchCount + 1
  /\ enteredBatch' =
       [n \in 1..Len(reqs) |->
          IF \E k \in 1..Len(SpliceTaken(q)) : SpliceTaken(q)[k] = n
          THEN batchCount + 1
          ELSE IF n <= Len(enteredBatch) THEN enteredBatch[n] ELSE 0]

\* checkResult: what the promise of a submission becomes when its poll reads
\* results.get(request.id).
CheckResult(id, resp, res) ==
  IF res[id] # 0 /\ resp[res[id]].status = "completed" THEN "resolved"
  ELSE IF res[id] # 0 /\ resp[res[id]].status = "failed" THEN "rejected"
  ELSE "pending"

InitBatch ==
  /\ batchSize \in 1..MaxBatchSize
  /\ requests = <<>>
  /\ responses = <<>>
  /\ queue = <<>>
  /\ results = [i \in Ids |-> 0]
  /\ isProcessing = FALSE
  /\ batch = <<>>
  /\ loopPc = "idle"
  /\ promise = <<>>
  /\ processor = "none"
  /\ enteredBatch = <<>>
  /\ batchCount = 0
  /\ loopStarts = 0

\* Request ids are opaque strings: they are numbered in the order of first use.
UsedIds == {requests[n].id : n \in 1..Len(requests)}
FreshOrUsed(id) == id \in UsedIds \/ id = Cardinality(UsedIds) + 1

\* addRequest(request), with the processQueue() call it makes and the first,
\* synchronous checkResult() of the promise it returns.
Submit(id, priority) ==
  /\ Len(requests) < MaxSubmits
  /\ FreshOrUsed(id)
  /\ LET n == Len(requests) + 1
         reqs == Append(requests, [id |-> id, priority |-> priority])
         resp == Append(responses, [id |-> id, status |-> "pending",
                                    result |-> "", error |-> ""])
         res == [results EXCEPT ![id] = n]
         q == SortByPriority(Append(queue, n), reqs)
     IN /\ requests' = reqs
        /\ results' = res
        /\ IF StartsLoop(isProcessing, q)
           THEN /\ TakeBatch(q, reqs, resp, res)
                /\ loopStarts' = loopStarts + 1
           ELSE /\ queue' = q
                /\ responses' = resp
                /\ enteredBatch' = Append(enteredBatch, 0)
                /\ UNCHANGED <<isProcessing, batch, loopPc, batchCount, loopStarts>>
        /\ promise' = Append(promise, CheckResult(id, responses', res))
  /\ UNCHANGED <<batchSize, processor>>

\* addRequest(request) on a processor whose timer is not followed.
addRequest(id, priority) == Submit(id, priority) /\ UNCHANGED notBatch

\* The state of the shared processor that a submission reads and writes.
BatchState ==
  [requests |-> requests, responses |-> responses, queue |-> queue,
   results |-> results, isProcessing |-> isProcessing, batch |-> batch,
   loopPc |-> loopPc, promise |-> promise, enteredBatch |-> enteredBatch,
   batchCount |-> batchCount, loopStarts |-> loopStarts]

\* addRequest(request) as a function of the processor's state: the state it
\* leaves, for the calls that generateBatch makes one after another in one job.
Submitted(st, id, priority) ==
  LET n == Len(st.requests) + 1
      reqs == Append(st.requests, [id |-> id, priority |-> priority])
      resp == Append(st.responses, [id |-> id, status |-> "pending",
                                    result |-> "", error |-> ""])
      res == [st.results EXCEPT ![id] = n]
      q == SortByPriority(Append(st.queue, n), reqs)
      starts == StartsLoop(st.isProcessing, q)
      taken == SpliceTaken(q)
      cbs == Callbacks(taken, reqs, res)
      marked == IF starts THEN MarkProcessing(resp, CallbackObjs(cbs)) ELSE resp
  IN [requests |-> reqs,
      responses |-> marked,
      queue |-> IF starts THEN SpliceRest(q) ELSE q,
      results |-> res,
      isProcessing |-> (starts \/ st.isProcessing),
      batch |-> IF starts THEN cbs ELSE st.batch,
      loopPc |-> IF starts THEN "batch" ELSE st.loopPc,
      promise |-> Append(st.promise, CheckResult(id, marked, res)),
      enteredBatch |-> IF starts
                       THEN [m \in 1..n |->
                               IF \E k \in 1..Len(taken) : taken[k] = m
                               THEN st.batchCount + 1
                               ELSE IF m < n THEN st.enteredBatch[m] ELSE 0]
                       ELSE Append(st.enteredBatch, 0),
      batchCount |-> IF starts THEN st.batchCount + 1 ELSE st.batchCount,
      loopStarts |-> IF starts THEN st.loopStarts + 1 ELSE st.loopStarts]

\* id: `batch_${Date.now()}_${index}`: the id is made of the time of the call
\* and the position in the array, and of nothing else. Ids are numbered so that
\* two ids are equal exactly when both parts are.
BatchId(t, index) == (t - 1) * MaxItems + index + 1

\* batchRequests.map(req => globalBatchProcessor.addRequest(req)): the requests
\* of one call are submitted in array order, from index on, at time t.
RECURSIVE SubmitAll(_, _, _, _)
SubmitAll(st, t, prios, index) ==
  IF index >= Len(prios) THEN st
  ELSE SubmitAll(Submitted(st, BatchId(t, index), prios[index + 1]), t, prios, index + 1)

\* generateBatch(requests) on the shared processor, for requests of the
\* priorities prios: up to the Promise.all it returns.
generateBatch(prios) ==
  /\ Len(requests) + Len(prios) <= MaxSubmits
  /\ \A i \in 0..(Len(prios) - 1) : BatchId(now, i) \in Ids
  /\ LET st == SubmitAll(BatchState, now, prios, 0)
     IN /\ requests' = st.requests
        /\ responses' = st.responses
        /\ queue' = st.queue
        /\ results' = st.results
        /\ isProcessing' = st.isProcessing
        /\ batch' = st.batch
        /\ loopPc' = st.loopPc
        /\ promise' = st.promise
        /\ enteredBatch' = st.enteredBatch
        /\ batchCount' = st.batchCount
        /\ loopStarts' = st.loopStarts
  /\ UNCHANGED <<batchSize, processor>>
  /\ UNCHANGED notBatch

\* The await of callback k of the current batch settles: lines 63-72.
CallbackSettles(k) ==
  /\ loopPc = "batch"
  /\ k \in 1..Len(batch)
  /\ ~batch[k].done
  /\ responses' = SettleCallback(responses, batch, k,
                                 processRequest(requests[batch[k].req]))
  /\ batch' = [batch EXCEPT ![k].done = TRUE]
  /\ UNCHANGED <<batchSize, requests, queue, results, isProcessing, loopPc, promise,
                 processor, enteredBatch, batchCount, loopStarts>>

\* The same, on a processor whose timer is not followed.
Settle(k) == CallbackSettles(k) /\ UNCHANGED notBatch

\* Promise.allSettled has resolved: lines 76-82 up to the next await or the return.
BatchSettled ==
  /\ loopPc = "batch"
  /\ \A k \in 1..Len(batch) : batch[k].done
  /\ batch' = <<>>
  /\ IF Len(queue) > 0
     THEN loopPc' = "delay" /\ UNCHANGED isProcessing
     ELSE loopPc' = "idle" /\ isProcessing' = FALSE
  /\ UNCHANGED <<batchSize, requests, responses, queue, results, promise,
                 processor, enteredBatch, batchCount, loopStarts>>

\* The same, on a processor whose timer is not followed.
AfterBatch == BatchSettled /\ UNCHANGED notBatch

\* The processingDelayMs timer has fired: the while condition and the next iteration.
DelayOver ==
  /\ loopPc = "delay"
  /\ IF Len(queue) > 0
     THEN TakeBatch(queue, requests, responses, results)
     ELSE /\ loopPc' = "idle" /\ isProcessing' = FALSE
          /\ UNCHANGED <<queue, batch, responses, batchCount, enteredBatch>>
  /\ UNCHANGED <<batchSize, requests, results, promise, processor, loopStarts>>

\* The same, on a processor whose timer is not followed.
AfterDelay == DelayOver /\ UNCHANGED notBatch

\* The drain loop with its timer followed. setTimeout(resolve, processingDelayMs)
\* set at time t fires no earlier than the time given here.
TimerDueAtOnce(t, delay) == t
TimerDue(t, delay) == t + delay

InitTimer ==
  /\ processingDelayMs \in 1..MaxProcessingDelay
  /\ delayUntil = 0
  /\ settledAt = 0
  /\ tookAt = 0

\* addRequest(request) with a new id, at time now.
addRequestAt(priority) ==
  /\ Cardinality(UsedIds) + 1 \in Ids
  /\ Submit(Cardinality(UsedIds) + 1, priority)
  /\ tookAt' = IF batchCount' > batchCount THEN now ELSE tookAt
  /\ UNCHANGED <<processingDelayMs, delayUntil, settledAt>>
  /\ UNCHANGED notTimed

\* The await of callback k settles at time now: its request becomes completed
\* or failed.
SettleAt(k) ==
  /\ CallbackSettles(k)
  /\ settledAt' = now
  /\ UNCHANGED <<processingDelayMs, delayUntil, tookAt>>
  /\ UNCHANGED notTimed

\* Promise.allSettled has resolved at time now: lines 76-82,
\* if (queue.length > 0) await new Promise(resolve => setTimeout(resolve, processingDelayMs)).
AfterBatchAt ==
  /\ BatchSettled
  /\ delayUntil' = IF Len(queue) > 0 THEN TimerDue(now, processingDelayMs) ELSE 0
  /\ UNCHANGED <<processingDelayMs, settledAt, tookAt>>
  /\ UNCHANGED notTimed

\* The timer fires, at its time or later, and the loop takes the next batch.
AfterDelayAt ==
  /\ now >= delayUntil
  /\ DelayOver
  /\ delayUntil' = 0
  /\ tookAt' = IF batchCount' > batchCount THEN now ELSE tookAt
  /\ UNCHANGED <<processingDelayMs, settledAt>>
  /\ UNCHANGED notTimed

\* setTimeout(checkResult, 100) of the n-th submission fires.
Poll(n) ==
  /\ n \in 1..Len(promise)
  /\ promise[n] = "pending"
  /\ promise' = [promise EXCEPT ![n] = CheckResult(requests[n].id, responses, results)]
  /\ UNCHANGED <<batchSize, requests, responses, queue, results, isProcessing, batch,
                 loopPc, processor, enteredBatch, batchCount, loopStarts>>
  /\ UNCHANGED notBatch

\* if (response.status === 'completed' || response.status === 'failed')
IsFinishedOrNot(response) == TRUE
IsFinished(response) == response.status \in Terminal

\* clearCompleted()
clearCompleted ==
  /\ results' = [i \in Ids |->
                   IF results[i] # 0 /\ IsFinished(responses[results[i]])
                   THEN 0 ELSE results[i]]
  /\ UNCHANGED <<batchSize, requests, responses, queue, isProcessing, batch, loopPc,
                 promise, processor, enteredBatch, batchCount, loopStarts>>
  /\ UNCHANGED notBatch

\* setProcessor(processor): Object.assign(processRequest, processor).
setProcessor(f) ==
  /\ processor' = f
  /\ UNCHANGED <<batchSize, requests, responses, queue, results, isProcessing, batch,
                 loopPc, promise, enteredBatch, batchCount, loopStarts>>
  /\ UNCHANGED notBatch

\* getStatus(id), getQueueSize(): reads.
getStatus(id) == IF results[id] = 0 THEN "absent" ELSE responses[results[id]].status
getQueueSize == Len(queue)

DrainStep ==
  \/ \E k \in 1..MaxBatchSize : Settle(k)
  \/ AfterBatch
  \/ AfterDelay

NextBatch ==
  \/ \E id \in Ids, p \in Priorities : addRequest(id, p)
  \/ DrainStep
  \/ clearCompleted
  \/ \E f \in Fns : setProcessor(f)

(***************************************************************************)
(* Cache.                                                                  *)
(***************************************************************************)
Keys == 1..NumKeys
\* The ttl arguments, in ticks of the clock, and the capacities a cache is built with.
Ttls == {1, 2}
CacheSizes == {3, 6}

\* The cached values: the strings "", "a" and "\"" (one double quote), as
\* sequences of characters.
Values == {<<>>, <<"a">>, <<"\"">>}

\* The value undefined, which JSON.stringify does not turn into a string, and
\* the values a caller can hand to set.
Undefined == <<"undefined">>
AnyValues == Values \cup {Undefined}

\* JSON.stringify(data).length for a string: the two enclosing quotes, one
\* character per letter, two (backslash, quote) per double quote.
RECURSIVE JSONLength(_)
JSONLength(v) ==
  IF v = <<>> THEN 2
  ELSE (IF Head(v) = "\"" THEN 2 ELSE 1) + JSONLength(Tail(v))

NoRet == [op |-> "none", key |-> 0, hit |-> FALSE, data |-> <<>>]
\* The outcome of a call that threw: reading .length of undefined is a TypeError.
TypeError == [op |-> "TypeError", key |-> 0, hit |-> FALSE, data |-> <<>>]
NoSet == [set |-> FALSE, data |-> <<>>, at |-> 0, ttl |-> 0]

\* isExpired(entry): Date.now() > entry.timestamp + entry.ttl
isExpiredIgnoresTtl(entry) == now > entry.timestamp
isExpired(entry) == now > entry.timestamp + entry.ttl

HasKey(c, key) == \E i \in 1..Len(c) : c[i].key = key
IndexOf(c, key) == CHOOSE i \in 1..Len(c) : c[i].key = key
RemoveAt(c, i) == SubSeq(c, 1, i - 1) \o SubSeq(c, i + 1, Len(c))
SumSizes(c) ==
  LET RECURSIVE Sum(_)
      Sum(i) == IF i = 0 THEN 0 ELSE c[i].size + Sum(i - 1)
  IN Sum(Len(c))

\* cleanup(): the entries left, in order, and the sizes taken off currentSize.
RECURSIVE Unexpired(_)
Unexpired(c) ==
  IF c = <<>> THEN <<>>
  ELSE IF isExpired(Head(c)) THEN Unexpired(Tail(c))
       ELSE <<Head(c)>> \o Unexpired(Tail(c))

\* evictLRU(): [...cache.entries()].sort by timestamp, first element; the sort is
\* stable, so among equal timestamps the entry first in the Map's order.
OldestIndex(c) ==
  CHOOSE i \in 1..Len(c) :
    \A j \in 1..Len(c) :
      \/ c[i].timestamp < c[j].timestamp
      \/ (c[i].timestamp = c[j].timestamp /\ i <= j)

\* while (currentSize + size > maxSize && cache.size > 0) evictLRU();
RECURSIVE EvictLoop(_, _, _)
EvictLoop(c, cs, size) ==
  IF cs + size > maxSize /\ Len(c) > 0
  THEN EvictLoop(RemoveAt(c, OldestIndex(c)), cs - c[OldestIndex(c)].size, size)
  ELSE [cache |-> c, currentSize |-> cs]

\* cache.set(key, entry) of the Map: a present key keeps its place.
MapSet(c, entry) ==
  IF HasKey(c, entry.key) THEN [c EXCEPT ![IndexOf(c, entry.key)] = entry]
  ELSE Append(c, entry)

InitCache ==
  /\ now = 1
  /\ maxSize \in CacheSizes
  /\ cache = <<>>
  /\ currentSize = 0
  /\ ret = NoRet
  /\ lastSet = [k \in Keys |-> NoSet]

\* The history of the sets: a key whose entry is gone and whose ttl, counted
\* from its set, has run out at time t is no longer followed.
Followed(ls, c, t) ==
  [k \in Keys |->
     IF ~HasKey(c, k) /\ t >= ls[k].at + ls[k].ttl THEN NoSet ELSE ls[k]]

\* get(key): what it does to the cache
CacheGet(key) ==
  /\ IF ~HasKey(cache, key) \/ isExpired(cache[IndexOf(cache, key)])
     THEN /\ IF HasKey(cache, key)
             THEN /\ currentSize' = currentSize - cache[IndexOf(cache, key)].size
                  /\ cache' = RemoveAt(cache, IndexOf(cache, key))
             ELSE UNCHANGED <<cache, currentSize>>
          /\ ret' = [op |-> "get", key |-> key, hit |-> FALSE, data |-> <<>>]
     ELSE /\ cache' = [cache EXCEPT ![IndexOf(cache, key)].timestamp = now]
          /\ ret' = [op |-> "get", key |-> key, hit |-> TRUE,
                     data |-> cache[IndexOf(cache, key)].data]
          /\ UNCHANGED currentSize
  /\ lastSet' = Followed(lastSet, cache', now)

\* get(key)
get(key) ==
  /\ CacheGet(key)
  /\ UNCHANGED <<now, maxSize>>
  /\ UNCHANGED notCache

\* set(key, data, ttl): what it does to the cache
CacheSet(key, data, ttl) ==
  \E cleaned \in {Unexpired(cache)} :
  IF data = Undefined
  THEN \* cleanup() has run when JSON.stringify(data).length throws
       /\ cache' = cleaned
       /\ currentSize' = currentSize - (SumSizes(cache) - SumSizes(cleaned))
       /\ lastSet' = Followed(lastSet, cache', now)
       /\ ret' = TypeError
  ELSE
  \E fit \in {EvictLoop(cleaned, currentSize - (SumSizes(cache) - SumSizes(cleaned)),
                        JSONLength(data))} :
    /\ cache' = MapSet(fit.cache,
                       [data |-> data, timestamp |-> now, ttl |-> ttl, key |-> key,
                        size |-> JSONLength(data)])
    /\ currentSize' = fit.currentSize + JSONLength(data)
    /\ lastSet' = Followed(
                    [k \in Keys |->
                       IF k = key THEN [set |-> TRUE, data |-> data, at |-> now, ttl |-> ttl]
                       ELSE IF HasKey(cleaned, k) /\ ~HasKey(fit.cache, k) THEN NoSet
                       ELSE lastSet[k]],
                    cache', now)
    /\ ret' = NoRet

\* set(key, data, ttl)
set(key, data, ttl) ==
  /\ CacheSet(key, data, ttl)
  /\ UNCHANGED <<now, maxSize>>
  /\ UNCHANGED notCache

\* del(key)
del(key) ==
  /\ IF HasKey(cache, key)
     THEN /\ currentSize' = currentSize - cache[IndexOf(cache, key)].size
          /\ cache' = RemoveAt(cache, IndexOf(cache, key))
     ELSE UNCHANGED <<cache, currentSize>>
  /\ lastSet' = [lastSet EXCEPT ![key] = NoSet]
  /\ ret' = NoRet
  /\ UNCHANGED <<now, maxSize>>
  /\ UNCHANGED notCache

\* clear()
clear ==
  /\ cache' = <<>>
  /\ currentSize' = 0
  /\ lastSet' = [k \in Keys |-> NoSet]
  /\ ret' = NoRet
  /\ UNCHANGED <<now, maxSize>>
  /\ UNCHANGED notCache

\* cleanup(), as exported
cleanup ==
  /\ cache' = Unexpired(cache)
  /\ currentSize' = currentSize - (SumSizes(cache) - SumSizes(Unexpired(cache)))
  /\ lastSet' = Followed(lastSet, cache', now)
  /\ ret' = NoRet
  /\ UNCHANGED <<now, maxSize>>
  /\ UNCHANGED notCache

\* getStats()
getStats == [size |-> Len(cache), currentSize |-> currentSize, maxSize |-> maxSize]

\* One tick of the clock passes.
Tick ==
  /\ now <= MaxTime
  /\ now' = now + 1
  /\ lastSet' = Followed(lastSet, cache, now + 1)
  /\ ret' = NoRet
  /\ UNCHANGED <<maxSize, cache, currentSize>>
  /\ UNCHANGED notCache

NextCache ==
  \/ \E k \in Keys : get(k)
  \/ \E k \in Keys, v \in AnyValues, ttl \in Ttls : set(k, v, ttl)
  \/ \E k \in Keys : del(k)
  \/ clear
  \/ cleanup
  \/ Tick

(***************************************************************************)
(* Cache keys.                                                             *)
(***************************************************************************)
\* Strings are sequences of characters; Ord(c) is the character's code.
Ord(c) ==
  CASE c = "\"" -> 34  [] c = "," -> 44   [] c = "1" -> 49  [] c = "2" -> 50
    [] c = ":" -> 58   [] c = "a" -> 97   [] c = "b" -> 98  [] c = "e" -> 101
    [] c = "g" -> 103  [] c = "i" -> 105  [] c = "m" -> 109 [] c = "n" -> 110
    [] c = "o" -> 111  [] c = "p" -> 112  [] c = "q" -> 113 [] c = "r" -> 114
    [] c = "t" -> 116  [] c = "{" -> 123  [] c = "}" -> 125

\* btoa(s): base64, as the sequence of its digits 0..63, with 64 for the "="
\* that pads the last group.
RECURSIVE btoa(_)
btoa(s) ==
  IF Len(s) = 0 THEN <<>>
  ELSE IF Len(s) = 1
       THEN <<Ord(s[1]) \div 4, (Ord(s[1]) % 4) * 16, 64, 64>>
  ELSE IF Len(s) = 2
       THEN <<Ord(s[1]) \div 4, (Ord(s[1]) % 4) * 16 + Ord(s[2]) \div 16,
              (Ord(s[2]) % 16) * 4, 64>>
  ELSE <<Ord(s[1]) \div 4, (Ord(s[1]) % 4) * 16 + Ord(s[2]) \div 16,
         (Ord(s[2]) % 16) * 4 + Ord(s[3]) \div 64, Ord(s[3]) % 64>>
       \o btoa(SubSeq(s, 4, Len(s)))

\* s.slice(0, n)
Slice(s, n) == SubSeq(s, 1, Min(n, Len(s)))

\* Options are flat objects: some of the properties "m" and "t", each 1 or 2.
OptionNames == <<"m", "t">>          \* in sorted order
OptionValues == <<"1", "2">>
Options ==
  UNION {[names -> 1..Len(OptionValues)] : names \in SUBSET {"m", "t"}}

\* JSON.stringify(options, Object.keys(options).sort()): the properties in
\* sorted order, as {"m":1,"t":2}.
RECURSIVE StringifyFrom(_, _, _)
StringifyFrom(options, i, first) ==
  IF i > Len(OptionNames) THEN <<"}">>
  ELSE IF OptionNames[i] \in DOMAIN options
       THEN (IF first THEN <<>> ELSE <<",">>)
            \o <<"\"", OptionNames[i], "\"", ":", OptionValues[options[OptionNames[i]]]>>
            \o StringifyFrom(options, i + 1, FALSE)
  ELSE StringifyFrom(options, i + 1, first)

Stringify(options) == <<"{">> \o StringifyFrom(options, 1, TRUE)

\* The providers of the factory, and prompts: short ones, and long ones that
\* share their first PadLen characters.
Providers == {<<"g", "r", "o", "q">>, <<"o", "p", "e", "n", "a", "i">>}
Pad == [i \in 1..PadLen |-> "a"]
Prompts == {<<>>, <<"a">>, <<"b">>, Pad \o <<"a">>, Pad \o <<"b">>}
Requests == [provider : Providers, prompt : Prompts, options : Options]

NoKey == <<>>

\* generateCacheKey(provider, prompt, options), without its constant "ai:"
KeyOf(r) ==
  Slice(btoa(r.provider \o <<":">> \o r.prompt \o <<":">> \o Stringify(r.options)),
        SliceLen)

InitKey ==
  /\ request \in [1..2 -> Requests]
  /\ cacheKey = [i \in 1..2 |-> NoKey]

\* generateCacheKey is called with the arguments of request i
generateCacheKey(i) ==
  /\ cacheKey[i] = NoKey
  /\ cacheKey' = [cacheKey EXCEPT ![i] = KeyOf(request[i])]
  /\ UNCHANGED request
  /\ UNCHANGED notKey

NextKey == \E i \in 1..2 : generateCacheKey(i)

(***************************************************************************)
(* Rate limiter.                                                           *)
(***************************************************************************)
Windows == {2, 3}

Max(a, b) == IF a > b THEN a ELSE b

\* Math.ceil(a / b) for b > 0
CeilDivFloors(a, b) == a \div b
CeilDiv(a, b) == (a + b - 1) \div b

\* while (requests.length > 0 && requests[0] < windowStart) requests.shift()
RECURSIVE PurgeInclusive(_, _)
PurgeInclusive(reqs, windowStart) ==
  IF Len(reqs) > 0 /\ reqs[1] <= windowStart
  THEN PurgeInclusive(Tail(reqs), windowStart)
  ELSE reqs

PurgeOnce(reqs, windowStart) ==
  IF Len(reqs) > 0 /\ reqs[1] < windowStart THEN Tail(reqs) ELSE reqs

RECURSIVE Purge(_, _)
Purge(reqs, windowStart) ==
  IF Len(reqs) > 0 /\ reqs[1] < windowStart
  THEN Purge(Tail(reqs), windowStart)
  ELSE reqs

\* retryAfter: undefined
NoRetry == -1

\* The RateLimitInfo that getRateLimitInfo returns at time t once the list
\* is purged to kept. "oldestRequest ? ... : now" takes the first branch for
\* a timestamp that is not 0.
RateLimitInfo(kept, t) ==
  LET remaining == Max(0, requestsPerMinute - Len(kept))
      resetTime == IF Len(kept) > 0 /\ kept[1] # 0 THEN kept[1] + windowSizeMs ELSE t
  IN [limit |-> requestsPerMinute,
      remaining |-> remaining,
      resetTime |-> resetTime,
      retryAfter |-> IF remaining = 0 THEN CeilDiv(resetTime - t, TicksPerSecond)
                     ELSE NoRetry]

NoInfo == [limit |-> 0, remaining |-> 0, resetTime |-> 0, retryAfter |-> NoRetry]
NoLret == [op |-> "none", provider |-> <<>>, instance |-> 0, allowed |-> FALSE,
           info |-> NoInfo, until |-> 0]

\* waitForSlot: the delay of its timer in ticks (0: it does not suspend)
SlotDelayInSeconds(info) ==
  IF info.remaining = 0 /\ info.retryAfter # NoRetry /\ info.retryAfter # 0
  THEN info.retryAfter
  ELSE 0

SlotDelay(info) ==
  IF info.remaining = 0 /\ info.retryAfter # NoRetry /\ info.retryAfter # 0
  THEN info.retryAfter * TicksPerSecond
  ELSE 0

InitLimiter ==
  /\ rateLimiters = [p \in Providers |-> 0]
  /\ limiterRequests = <<>>
  /\ requestsPerMinute \in 1..MaxLimit
  /\ windowSizeMs \in Windows
  /\ lret = NoLret
  /\ sleepers = {}

\* The instance the registry holds for provider p, and its requests.
RequestsOf(p) == limiterRequests[rateLimiters[p]]

RECURSIVE Retained(_)
Retained(lists) == IF lists = <<>> THEN 0 ELSE Len(Head(lists)) + Retained(Tail(lists))

\* getRateLimiter(provider)
NewInstanceShared(lists) == IF lists = <<>> THEN 1 ELSE Len(lists)
NewInstance(lists) == Len(lists) + 1

getRateLimiter(p) ==
  /\ IF rateLimiters[p] = 0
     THEN /\ rateLimiters' = [rateLimiters EXCEPT ![p] = NewInstance(limiterRequests)]
          /\ limiterRequests' = IF rateLimiters'[p] > Len(limiterRequests)
                                THEN Append(limiterRequests, <<>>)
                                ELSE limiterRequests
     ELSE UNCHANGED <<rateLimiters, limiterRequests>>
  /\ lret' = [NoLret EXCEPT !.op = "getRateLimiter", !.provider = p,
                            !.instance = rateLimiters'[p]]
  /\ UNCHANGED <<requestsPerMinute, windowSizeMs, sleepers, now>>
  /\ UNCHANGED notLimiter

\* return requests.length < requestsPerMinute
HasCapacityInclusive(kept) == Len(kept) <= requestsPerMinute
HasCapacity(kept) == Len(kept) < requestsPerMinute

\* isAllowed() on the limiter of provider p
isAllowed(p) ==
  /\ rateLimiters[p] # 0
  /\ limiterRequests' = [limiterRequests EXCEPT
                           ![rateLimiters[p]] = Purge(@, now - windowSizeMs)]
  /\ lret' = [NoLret EXCEPT !.op = "isAllowed", !.provider = p,
                            !.allowed = HasCapacity(limiterRequests'[rateLimiters[p]])]
  /\ UNCHANGED <<rateLimiters, requestsPerMinute, windowSizeMs, sleepers, now>>
  /\ UNCHANGED notLimiter

\* addRequest() on the limiter of provider p
limiterAddRequest(p) ==
  /\ rateLimiters[p] # 0
  /\ Retained(limiterRequests) < MaxRequests
  /\ limiterRequests' = [limiterRequests EXCEPT ![rateLimiters[p]] = Append(@, now)]
  /\ lret' = [NoLret EXCEPT !.op = "addRequest", !.provider = p]
  /\ UNCHANGED <<rateLimiters, requestsPerMinute, windowSizeMs, sleepers, now>>
  /\ UNCHANGED notLimiter

\* A caller that keeps the order the limiter expects: isAllowed() returned
\* true and addRequest() follows in the same job.
CheckThenAdd(p) ==
  /\ rateLimiters[p] # 0
  /\ Retained(limiterRequests) < MaxRequests
  /\ LET kept == Purge(RequestsOf(p), now - windowSizeMs)
     IN /\ HasCapacity(kept)
        /\ limiterRequests' = [limiterRequests EXCEPT ![rateLimiters[p]] = Append(kept, now)]
  /\ lret' = [NoLret EXCEPT !.op = "addRequest", !.provider = p]
  /\ UNCHANGED <<rateLimiters, requestsPerMinute, windowSizeMs, sleepers, now>>
  /\ UNCHANGED notLimiter

\* getRateLimitInfo() on the limiter of provider p
getRateLimitInfo(p) ==
  /\ rateLimiters[p] # 0
  /\ limiterRequests' = [limiterRequests EXCEPT
                           ![rateLimiters[p]] = Purge(@, now - windowSizeMs)]
  /\ lret' = [NoLret EXCEPT !.op = "getRateLimitInfo", !.provider = p,
                            !.info = RateLimitInfo(limiterRequests'[rateLimiters[p]], now)]
  /\ UNCHANGED <<rateLimiters, requestsPerMinute, windowSizeMs, sleepers, now>>
  /\ UNCHANGED notLimiter

\* waitForSlot() on the limiter of provider p, up to its await. A suspended
\* call is kept with the time of its timer and, as history, the list of
\* timestamps it found.
waitForSlot(p) ==
  /\ rateLimiters[p] # 0
  /\ Cardinality(sleepers) < MaxSleepers
  /\ limiterRequests' = [limiterRequests EXCEPT
                           ![rateLimiters[p]] = Purge(@, now - windowSizeMs)]
  /\ LET info == RateLimitInfo(limiterRequests'[rateLimiters[p]], now)
     IN /\ lret' = [NoLret EXCEPT !.op = "waitForSlot", !.provider = p, !.info = info,
                                  !.until = IF SlotDelay(info) = 0 THEN 0
                                            ELSE now + SlotDelay(info)]
        /\ sleepers' = IF SlotDelay(info) = 0 THEN sleepers
                       ELSE sleepers \cup {[provider |-> p, until |-> now + SlotDelay(info),
                                              reqs |-> limiterRequests'[rateLimiters[p]]]}
  /\ UNCHANGED <<rateLimiters, requestsPerMinute, windowSizeMs, now>>
  /\ UNCHANGED notLimiter

\* The timer of a suspended waitForSlot fires, not before its time:
\* waitForSlot returns.
SlotTimer(s) ==
  /\ s \in sleepers
  /\ now >= s.until
  /\ sleepers' = sleepers \ {s}
  /\ lret' = [NoLret EXCEPT !.op = "resumed", !.provider = s.provider, !.until = s.until]
  /\ UNCHANGED <<rateLimiters, limiterRequests, requestsPerMinute, windowSizeMs, now>>
  /\ UNCHANGED notLimiter

\* One tick of the clock passes.
Elapse ==
  /\ now < MaxClock
  /\ now' = now + 1
  /\ lret' = NoLret
  /\ UNCHANGED <<rateLimiters, limiterRequests, requestsPerMinute, windowSizeMs, sleepers>>
  /\ UNCHANGED notLimiter

NextLimiter ==
  \/ \E p \in Providers : getRateLimiter(p)
  \/ \E p \in Providers : isAllowed(p)
  \/ \E p \in Providers : limiterAddRequest(p)
  \/ \E p \in Providers : getRateLimitInfo(p)
  \/ Elapse

\* Callers of generateBatch on the shared processor, and the clock.
PriorityLists == UNION {[1..n -> Priorities] : n \in 1..MaxItems}

NextShared ==
  \/ \E prios \in PriorityLists : generateBatch(prios)
  \/ DrainStep
  \/ Elapse

\* Callers that record a request only directly after isAllowed() returned true.
NextChecked ==
  \/ \E p \in Providers : getRateLimiter(p)
  \/ \E p \in Providers : isAllowed(p)
  \/ \E p \in Providers : CheckThenAdd(p)
  \/ \E p \in Providers : getRateLimitInfo(p)
  \/ Elapse

\* Callers of one provider that record requests and wait for a slot.
Groq == <<"g", "r", "o", "q">>

NextSlot ==
  \/ getRateLimiter(Groq)
  \/ limiterAddRequest(Groq)
  \/ waitForSlot(Groq)
  \/ \E s \in sleepers : SlotTimer(s)
  \/ Elapse

(***************************************************************************)
(* Retry handler.                                                          *)
(***************************************************************************)
\* The parameters a handler is built with, in ticks: baseDelayMs is one
\* second (the default) or ten ticks, maxDelayMs fifteen ticks or thirty
\* seconds (the default).
BaseDelays == {TicksPerSecond, 10}
MaxDelays == {15, 30 * TicksPerSecond}
Multipliers == {1, 2}

\* Errors are objects with a code, a statusCode and a message, each of which
\* may be missing ("" , 0, <<>>); absent is a thrown undefined.
retryableCodes ==
  {"ECONNRESET", "ENOTFOUND", "ECONNREFUSED", "ETIMEDOUT", "RATE_LIMITED",
   "SERVER_ERROR", "TIMEOUT"}
retryableStatusCodes == {429, 500, 502, 503, 504}

ErrorCodes == retryableCodes \cup {"", "EMPTY_AI_RESPONSE", "timeout"}
StatusCodes == retryableStatusCodes \cup {0, 400, 401, 501}
Messages ==
  {<<>>, <<"t", "i", "m", "e", "o", "u", "t">>,
   <<"T", "i", "m", "e", "o", "u", "t">>,
   <<"a", " ", "t", "i", "m", "e", "o", "u", "t", ".">>,
   <<"r", "a", "t", "e", " ", "l", "i", "m", "i", "t">>,
   <<"r", "a", "t", "e", "-", "l", "i", "m", "i", "t">>,
   <<"E", "m", "p", "t", "y", " ", "r", "e", "s", "p", "o", "n", "s", "e", " ", "f", "r", "o", "m", " ", "A", "I">>}

NoError == [absent |-> TRUE, code |-> "", statusCode |-> 0, message |-> <<>>]
Errors ==
  [absent : {FALSE}, code : ErrorCodes, statusCode : StatusCodes, message : Messages]
    \cup {NoError}

\* s.includes(sub)
Includes(s, sub) ==
  \E i \in 1..(Len(s) - Len(sub) + 1) : SubSeq(s, i, i + Len(sub) - 1) = sub

\* isRetryableError(error)
isRetryableErrorByClass(error) ==
  /\ ~error.absent
  /\ \/ error.code \in retryableCodes
     \/ error.statusCode >= 500
     \/ Includes(error.message, <<"t", "i", "m", "e", "o", "u", "t">>)
     \/ Includes(error.message, <<"r", "a", "t", "e", " ", "l", "i", "m", "i", "t">>)

isRetryableError(error) ==
  /\ ~error.absent
  /\ \/ error.code \in retryableCodes
     \/ error.statusCode \in retryableStatusCodes
     \/ Includes(error.message, <<"t", "i", "m", "e", "o", "u", "t">>)
     \/ Includes(error.message, <<"r", "a", "t", "e", " ", "l", "i", "m", "i", "t">>)

\* Math.pow(b, n)
RECURSIVE Pow(_, _)
Pow(b, n) == IF n = 0 THEN 1 ELSE b * Pow(b, n - 1)

\* calculateDelay(attempt), for a jitter of jitter ticks:
\* delay is baseDelayMs * backoffMultiplier ^ (attempt - 1), the jitter is
\* Math.random() * 0.1 * delay.
BaseDelay(n) == baseDelayMs * Pow(backoffMultiplier, n - 1)
Jitters(n) == 0..(BaseDelay(n) \div 10)
calculateDelayUncapped(n, jitter) == BaseDelay(n) + jitter
calculateDelay(n, jitter) == Min(BaseDelay(n) + jitter, maxDelayMs)

\* The operation settles with a value or throws one of these errors.
E503 == [absent |-> FALSE, code |-> "", statusCode |-> 503, message |-> <<>>]
ETimedOut == [absent |-> FALSE, code |-> "ETIMEDOUT", statusCode |-> 0, message |-> <<>>]
E401 == [absent |-> FALSE, code |-> "", statusCode |-> 401, message |-> <<>>]
Results == {<<"a">>, <<"b">>}
OperationOutcomes ==
  [ok : {TRUE}, value : Results, error : {NoError}]
    \cup [ok : {FALSE}, value : {<<>>}, error : {E503, ETimedOut, E401, NoError}]

Pending == [ok |-> FALSE, value |-> <<"pending">>, error |-> NoError]
NoRetryRet == [kind |-> "none", value |-> <<>>, error |-> NoError]
NoHandlerRet == [op |-> "none", error |-> NoError, retryable |-> FALSE,
                 n |-> 0, jitter |-> 0, delay |-> 0]

InitRetry ==
  /\ maxRetries \in 0..RetryLimit
  /\ baseDelayMs \in BaseDelays
  /\ maxDelayMs \in MaxDelays
  /\ backoffMultiplier \in Multipliers
  /\ retryPc = "idle"
  /\ attempt = 0
  /\ calls = <<>>
  /\ waits = <<>>
  /\ retryUntil = 0
  /\ retryRet = NoRetryRet
  /\ handlerRet = NoHandlerRet

\* if (attempt > maxRetries || !isRetryableError(error)) throw error
ShouldThrowEarly(n, error) == n >= maxRetries \/ ~isRetryableError(error)
ShouldThrowLate(n, error) == n > maxRetries + 1 \/ ~isRetryableError(error)
ShouldThrowWhenExhausted(n, error) == n > maxRetries
ShouldThrow(n, error) == n > maxRetries \/ ~isRetryableError(error)

\* setTimeout(resolve, delay), set at time t
WakeTimeNoDelay(t, delay) == t
WakeTime(t, delay) == t + delay

\* retry(operation) is called: the loop starts with attempt 1 and invokes the
\* operation.
retry ==
  /\ retryPc = "idle"
  /\ retryPc' = "running"
  /\ attempt' = 1
  /\ calls' = <<[startedAt |-> now, settledAt |-> 0, outcome |-> Pending]>>
  /\ handlerRet' = NoHandlerRet
  /\ UNCHANGED <<maxRetries, baseDelayMs, maxDelayMs, backoffMultiplier, waits,
                 retryUntil, retryRet, now>>
  /\ UNCHANGED notRetry

\* The operation settles after took ticks: its value is returned; its error
\* is thrown, or the delay of the attempt is computed and its timer set.
OperationSettles(outcome, took) ==
  /\ retryPc = "running"
  /\ now' = now + took
  /\ calls' = [calls EXCEPT ![Len(calls)].settledAt = now',
                            ![Len(calls)].outcome = outcome]
  /\ IF outcome.ok
     THEN /\ retryPc' = "returned"
          /\ retryRet' = [kind |-> "returned", value |-> outcome.value, error |-> NoError]
          /\ UNCHANGED <<waits, retryUntil>>
     ELSE IF ShouldThrow(attempt, outcome.error)
     THEN /\ retryPc' = "thrown"
          /\ retryRet' = [kind |-> "thrown", value |-> <<>>, error |-> outcome.error]
          /\ UNCHANGED <<waits, retryUntil>>
     ELSE \E jitter \in Jitters(attempt) :
            /\ retryPc' = "delay"
            /\ waits' = Append(waits, [failedAt |-> now',
                                       delay |-> calculateDelay(attempt, jitter)])
            /\ retryUntil' = WakeTime(now', calculateDelay(attempt, jitter))
            /\ UNCHANGED retryRet
  /\ handlerRet' = NoHandlerRet
  /\ UNCHANGED <<maxRetries, baseDelayMs, maxDelayMs, backoffMultiplier, attempt>>
  /\ UNCHANGED notRetry

\* The timer of the delay fires, at its time or late ticks after it: the
\* loop goes to the next attempt and invokes the operation.
DelayTimer(late) ==
  /\ retryPc = "delay"
  /\ now' = Max(now, retryUntil) + late
  /\ retryPc' = "running"
  /\ attempt' = attempt + 1
  /\ calls' = Append(calls, [startedAt |-> now', settledAt |-> 0, outcome |-> Pending])
  /\ handlerRet' = NoHandlerRet
  /\ UNCHANGED <<maxRetries, baseDelayMs, maxDelayMs, backoffMultiplier, waits,
                 retryUntil, retryRet>>
  /\ UNCHANGED notRetry

\* The handler's isRetryableError(error) is called.
classify(error) ==
  /\ handlerRet = NoHandlerRet
  /\ handlerRet' = [NoHandlerRet EXCEPT !.op = "isRetryableError", !.error = error,
                                        !.retryable = isRetryableError(error)]
  /\ UNCHANGED <<maxRetries, baseDelayMs, maxDelayMs, backoffMultiplier, retryPc,
                 attempt, calls, waits, retryUntil, retryRet, now>>
  /\ UNCHANGED notRetry

\* The handler's calculateDelay(n) is called, and Math.random() gives the
\* jitter.
delayFor(n, jitter) ==
  /\ handlerRet = NoHandlerRet
  /\ handlerRet' = [NoHandlerRet EXCEPT !.op = "calculateDelay", !.n = n,
                                        !.jitter = jitter,
                                        !.delay = calculateDelay(n, jitter)]
  /\ UNCHANGED <<maxRetries, baseDelayMs, maxDelayMs, backoffMultiplier, retryPc,
                 attempt, calls, waits, retryUntil, retryRet, now>>
  /\ UNCHANGED notRetry

NextRetry ==
  \/ retry
  \/ \E o \in OperationOutcomes, took \in 0..1 : OperationSettles(o, took)
  \/ \E late \in 0..1 : DelayTimer(late)

NextHandler ==
  \/ \E e \in Errors : classify(e)
  \/ \E n \in 1..MaxAttempt : \E jitter \in Jitters(n) : delayFor(n, jitter)

(***************************************************************************)
(* Provider flow: generateCompletion of the groq provider, with the global *)
(* cache, the global retry handler and the provider's rate limiter.        *)
(***************************************************************************)
Callers == 1..NumCallers

\* What the provider's API call settles with: a text, an error that
\* isRetryableError accepts, an error that it does not accept.
Outcomes == {"content", "retryable", "fatal"}
Content == <<"a">>

\* pc: "idle" (no call), "resume" (the await of a waitForSlot that did not
\* suspend), "waiting" (suspended in waitForSlot), "calling" (the API call of
\* an attempt is out), "backoff" (the retry handler's delay), "done",
\* "failed".
NoCall == [pc |-> "idle", key |-> 0, attempt |-> 0, until |-> 0, value |-> <<>>,
           error |-> NoError]

\* The error the provider call rejects with: a 503 is retryable, a 401 is not.
ErrorOf(outcome) == IF outcome = "retryable" THEN E503 ELSE E401

\* throw error in retry(), with no catch in generateCompletion: what the
\* caller of generateCompletion receives.
ThrownUnclassified(error) == [error EXCEPT !.statusCode = 0]
Thrown(error) == error

InitFlow == flow = [c \in Callers |-> NoCall]

\* A call takes the first caller that has no call in flight.
Free(c) == flow[c].pc \in {"idle", "done", "failed"}
FirstFree(c) == Free(c) /\ \A d \in Callers : (d < c) => ~Free(d)

\* A continuation that is a microtask runs before any timer or response.
MicrotaskPending == \E c \in Callers : flow[c].pc = "resume"

\* generateCompletion from the cache lookup on (lines 128-135), for a limiter
\* list reqs: a truthy hit is returned; on a miss retry() starts the first
\* attempt, which records its request and sends the API call.
LookupCountsHit(c, key, reqs) ==
  /\ CacheGet(key)
  /\ Len(reqs) < MaxRequests
  /\ limiterRequests' = [limiterRequests EXCEPT ![rateLimiters[Groq]] = Append(reqs, now)]
  /\ IF ret'.hit /\ ret'.data # <<>>
     THEN flow' = [flow EXCEPT ![c] = [NoCall EXCEPT !.pc = "done", !.key = key,
                                                    !.value = ret'.data]]
     ELSE flow' = [flow EXCEPT ![c] = [NoCall EXCEPT !.pc = "calling", !.key = key,
                                                    !.attempt = 1]]
LookupSingleFlight(c, key, reqs) ==
  /\ CacheGet(key)
  /\ IF ret'.hit /\ ret'.data # <<>>
     THEN /\ flow' = [flow EXCEPT ![c] = [NoCall EXCEPT !.pc = "done", !.key = key,
                                                       !.value = ret'.data]]
          /\ limiterRequests' = [limiterRequests EXCEPT ![rateLimiters[Groq]] = reqs]
     ELSE IF \E d \in Callers \ {c} : flow[d].pc \in {"calling", "backoff"} /\ flow[d].key = key
     THEN /\ flow' = [flow EXCEPT ![c] = [NoCall EXCEPT !.pc = "waiting", !.key = key,
                                                       !.until = now + 1]]
          /\ limiterRequests' = [limiterRequests EXCEPT ![rateLimiters[Groq]] = reqs]
     ELSE /\ Len(reqs) < MaxRequests
          /\ flow' = [flow EXCEPT ![c] = [NoCall EXCEPT !.pc = "calling", !.key = key,
                                                       !.attempt = 1]]
          /\ limiterRequests' = [limiterRequests EXCEPT
                                   ![rateLimiters[Groq]] = Append(reqs, now)]
Lookup(c, key, reqs) ==
  /\ CacheGet(key)
  /\ IF ret'.hit /\ ret'.data # <<>>
     THEN /\ flow' = [flow EXCEPT ![c] = [NoCall EXCEPT !.pc = "done", !.key = key,
                                                       !.value = ret'.data]]
          /\ limiterRequests' = [limiterRequests EXCEPT ![rateLimiters[Groq]] = reqs]
     ELSE /\ Len(reqs) < MaxRequests
          /\ flow' = [flow EXCEPT ![c] = [NoCall EXCEPT !.pc = "calling", !.key = key,
                                                       !.attempt = 1]]
          /\ limiterRequests' = [limiterRequests EXCEPT
                                   ![rateLimiters[Groq]] = Append(reqs, now)]

\* generateCompletion(prompt, options) is called for a request with cache
\* key key, and runs to its first await; c is the caller.
Completion(c, key) ==
  /\ rateLimiters[Groq] # 0
  /\ LET purged == Purge(RequestsOf(Groq), now - windowSizeMs)
     IN IF Len(purged) < requestsPerMinute
        THEN Lookup(c, key, purged)
        ELSE LET delay == SlotDelay(RateLimitInfo(purged, now))
             IN /\ flow' = [flow EXCEPT ![c] =
                              [NoCall EXCEPT !.pc = IF delay = 0 THEN "resume" ELSE "waiting",
                                             !.key = key, !.until = now + delay]]
                /\ limiterRequests' = [limiterRequests EXCEPT ![rateLimiters[Groq]] = purged]
                /\ UNCHANGED <<cache, currentSize, ret, lastSet>>
  /\ lret' = NoLret
  /\ UNCHANGED <<rateLimiters, requestsPerMinute, windowSizeMs, sleepers>>
  /\ UNCHANGED <<now, maxSize>>
  /\ UNCHANGED notFlow

generateCompletion(c, key) == FirstFree(c) /\ Completion(c, key)

\* await rateLimiter.waitForSlot() resumes: the flow goes on with the cache
\* lookup.
AfterSlot(c) ==
  /\ \/ flow[c].pc = "resume"
     \/ flow[c].pc = "waiting" /\ now >= flow[c].until /\ ~MicrotaskPending
  /\ Lookup(c, flow[c].key, RequestsOf(Groq))
  /\ lret' = NoLret
  /\ UNCHANGED <<rateLimiters, requestsPerMinute, windowSizeMs, sleepers>>
  /\ UNCHANGED <<now, maxSize>>
  /\ UNCHANGED notFlow

\* The API call of caller c settles. A text is returned by retry() and
\* stored in the cache; a retryable error with retries left starts the
\* delay; any other error is thrown to the caller of generateCompletion.
Response(c, outcome) ==
  /\ flow[c].pc = "calling"
  /\ ~MicrotaskPending
  /\ IF outcome = "content"
     THEN /\ CacheSet(flow[c].key, Content, DefaultTtl)
          /\ flow' = [flow EXCEPT ![c].pc = "done", ![c].value = Content]
     ELSE /\ IF outcome = "fatal" \/ flow[c].attempt > maxRetries
             THEN flow' = [flow EXCEPT ![c].pc = "failed",
                                       ![c].error = Thrown(ErrorOf(outcome))]
             ELSE \E jitter \in Jitters(flow[c].attempt) :
                    flow' = [flow EXCEPT ![c].pc = "backoff",
                               ![c].until = now + calculateDelay(flow[c].attempt, jitter)]
          /\ UNCHANGED <<cache, currentSize, ret, lastSet>>
  /\ UNCHANGED limiterVars
  /\ UNCHANGED <<now, maxSize>>
  /\ UNCHANGED notFlow

\* The delay of the retry handler is over: the next attempt records its
\* request and sends the API call.
AfterBackoff(c) ==
  /\ flow[c].pc = "backoff"
  /\ now >= flow[c].until
  /\ ~MicrotaskPending
  /\ Len(RequestsOf(Groq)) < MaxRequests
  /\ flow' = [flow EXCEPT ![c].pc = "calling", ![c].attempt = @ + 1]
  /\ limiterRequests' = [limiterRequests EXCEPT ![rateLimiters[Groq]] = Append(@, now)]
  /\ lret' = NoLret
  /\ UNCHANGED <<rateLimiters, requestsPerMinute, windowSizeMs, sleepers>>
  /\ UNCHANGED <<now, maxSize>>
  /\ UNCHANGED cacheState
  /\ UNCHANGED notFlow

\* createGroqProvider(config): const rateLimiter = getRateLimiter('groq')
createGroqProvider ==
  /\ rateLimiters[Groq] = 0
  /\ getRateLimiter(Groq)

\* One tick of the clock passes, once the microtasks have run.
FlowElapse == ~MicrotaskPending /\ Elapse

NextFlow ==
  \/ createGroqProvider
  \/ \E c \in Callers, k \in Keys : generateCompletion(c, k)
  \/ \E c \in Callers : AfterSlot(c)
  \/ \E c \in Callers, o \in Outcomes : Response(c, o)
  \/ \E c \in Callers : AfterBackoff(c)
  \/ FlowElapse

(***************************************************************************)
(* Specifications.                                                         *)
(***************************************************************************)
\* A specification of one component leaves the other as constructed with its
\* smallest parameter.
Init ==
  InitBatch /\ InitCache /\ InitKey /\ InitLimiter /\ InitFlow /\ InitRetry /\ InitTimer
\* The global retry handler is createRetryHandler() with its defaults.
IdleRetry ==
  /\ maxRetries = MaxRetries
  /\ baseDelayMs = TicksPerSecond
  /\ maxDelayMs = 30 * TicksPerSecond
  /\ backoffMultiplier = 2
IdleLimiter == requestsPerMinute = 1 /\ windowSizeMs = 2
IdleBatch == batchSize = 1
IdleTimer == processingDelayMs = 1
IdleCache == maxSize = 3
IdleKey == request = [i \in 1..2 |-> [provider |-> <<"g", "r", "o", "q">>,
                                     prompt |-> <<>>, options |-> <<>>]]
InitBatchOnly == IdleTimer /\ IdleCache /\ IdleKey /\ IdleLimiter /\ IdleRetry /\ Init
InitCacheOnly == IdleTimer /\ IdleBatch /\ IdleKey /\ IdleLimiter /\ IdleRetry /\ Init
InitKeyOnly == IdleTimer /\ IdleBatch /\ IdleCache /\ IdleLimiter /\ IdleRetry /\ Init
InitLimiterOnly == IdleTimer /\ IdleBatch /\ IdleCache /\ IdleKey /\ IdleRetry /\ Init
InitFlowOnly == IdleTimer /\ IdleBatch /\ IdleCache /\ IdleKey /\ IdleRetry /\ Init
InitRetryOnly == IdleTimer /\ IdleBatch /\ IdleCache /\ IdleKey /\ IdleLimiter /\ Init

\* The batch processor under every order of its operations.
SpecBatch == InitBatchOnly /\ [][NextBatch]_vars

\* The batch processor as createAdvancedAIService sets it up: setProcessor is
\* called once, before the first submission (part_002, lines 186-188).
SetupProcessor(f) == requests = <<>> /\ processor = "none" /\ setProcessor(f)

NextInjected ==
  \/ \E f \in Fns : SetupProcessor(f)
  \/ \E id \in Ids, p \in Priorities : addRequest(id, p)
  \/ DrainStep
  \/ clearCompleted

SpecInjected == InitBatchOnly /\ [][NextInjected]_vars

\* A burst: every submission is made before the drain loop has taken any step
\* after its first await, that is back-to-back to an idle processor.
BurstOpen == \A n \in 1..Len(responses) : responses[n].status \notin Terminal
BurstSubmit(id, p) == BurstOpen /\ addRequest(id, p)

NextBurst ==
  \/ \E id \in Ids, p \in Priorities : BurstSubmit(id, p)
  \/ DrainStep

SpecBurst == InitBatchOnly /\ [][NextBurst]_vars

\* The batch processor with the polls of the promises addRequest returned. The
\* event loop runs every due timer and every queued continuation: each poll and
\* each step of the drain loop that stays enabled is eventually taken.
NextPromise ==
  \/ \E id \in Ids, p \in Priorities : addRequest(id, p)
  \/ DrainStep
  \/ clearCompleted
  \/ \E n \in 1..MaxSubmits : Poll(n)

SpecPromise ==
  /\ InitBatchOnly /\ [][NextPromise]_vars
  /\ WF_vars(DrainStep)
  /\ \A n \in 1..MaxSubmits : WF_vars(Poll(n))

\* Submissions and a drain loop whose awaits all settle: every processing call
\* returns or throws, and every timer fires.
NextDrain ==
  \/ \E id \in Ids, p \in Priorities : addRequest(id, p)
  \/ DrainStep

SpecDrain == InitBatchOnly /\ [][NextDrain]_vars /\ WF_vars(DrainStep)

\* Submissions and the drain loop over the clock: awaits settle and timers
\* fire at any time from the time they are due.
InitTimed == IdleCache /\ IdleKey /\ IdleLimiter /\ IdleRetry /\ Init

NextTimed ==
  \/ \E p \in Priorities : addRequestAt(p)
  \/ \E k \in 1..MaxBatchSize : SettleAt(k)
  \/ AfterBatchAt
  \/ AfterDelayAt
  \/ Elapse

SpecTimed == InitTimed /\ [][NextTimed]_vars

\* The cache under every order of its operations and of the clock.
SpecCache == InitCacheOnly /\ [][NextCache]_vars

\* generateCacheKey on every pair of requests.
SpecKey == InitKeyOnly /\ [][NextKey]_vars

\* The registry and its limiters under every order of their operations.
SpecLimiter == InitLimiterOnly /\ [][NextLimiter]_vars

\* The shared batch processor fed by generateBatch only.
SpecShared == InitBatchOnly /\ [][NextShared]_vars

\* The limiters used in the order isAllowed, then addRequest.
SpecChecked == InitLimiterOnly /\ [][NextChecked]_vars

\* One limiter with callers that wait for a slot.
SpecSlot == InitLimiterOnly /\ [][NextSlot]_vars

\* One call of retry() on a handler, for every outcome of the operation.
SpecRetry == InitRetryOnly /\ [][NextRetry]_vars

\* The handler's isRetryableError and calculateDelay, called directly.
SpecHandler == InitRetryOnly /\ [][NextHandler]_vars

\* Concurrent calls of generateCompletion on the groq provider.
SpecFlow == InitFlowOnly /\ [][NextFlow]_vars

\* generateCompletion behind one limiter configuration, that of the limiter
\* getRateLimiter creates when its limit is MaxLimit.
InitCompletion ==
  IdleTimer /\ IdleBatch /\ IdleCache /\ IdleKey /\ IdleRetry
  /\ requestsPerMinute = MaxLimit /\ windowSizeMs = 2 /\ Init

\* Each caller makes one generateCompletion call; the callers come in order,
\* and a key is new only when the keys before it are in use.
FirstCall(c, k) ==
  /\ flow[c].pc = "idle"
  /\ \A d \in Callers : (d < c) => flow[d].pc # "idle"
  /\ \A j \in Keys : (j < k) => \E d \in Callers : flow[d].key = j
  /\ Completion(c, k)

NextCompletion ==
  \/ createGroqProvider
  \/ \E c \in Callers, k \in Keys : FirstCall(c, k)
  \/ \E c \in Callers : AfterSlot(c)
  \/ \E c \in Callers, o \in Outcomes : Response(c, o)
  \/ \E c \in Callers : AfterBackoff(c)
  \/ FlowElapse

SpecCompletion == InitCompletion /\ [][NextCompletion]_vars

(***************************************************************************)
(* Claims about the batch processor.                                       *)
(***************************************************************************)
DistinctIds ==
  \A m, n \in 1..Len(requests) : m # n => requests[m].id # requests[n].id
DistinctPriorities ==
  \A m, n \in 1..Len(requests) : m # n => requests[m].priority # requests[n].priority
SubmitCount(id) == Cardinality({n \in 1..Len(requests) : requests[n].id = id})

\* C1: once setProcessor(fn) has been called, an item the drain loop has
\* processed shows fn's outcome: completed with fn's result when fn resolves,
\* failed with fn's error message when fn throws.
C1_InjectedProcessorDecides ==
  \A n \in 1..Len(responses) :
    (processor # "none" /\ responses[n].status \in Terminal) =>
      IF FnOutcome(processor, requests[n]).ok
      THEN /\ responses[n].status = "completed"
           /\ responses[n].result = FnOutcome(processor, requests[n]).value
      ELSE /\ responses[n].status = "failed"
           /\ responses[n].error = FnOutcome(processor, requests[n]).msg

\* C2 (as stated): while no processor has been set, every submitted item is pending.
C2_PendingWithoutProcessor ==
  processor = "none" => \A n \in 1..Len(responses) : responses[n].status = "pending"

\* C2 (amended): while no processor has been set, no item is ever completed; an
\* item the drain loop takes goes to processing and ends failed with the error
\* message of the stub, "processRequest function must be injected".
C2_FailsWithoutProcessor ==
  processor = "none" =>
    \A n \in 1..Len(responses) :
      /\ responses[n].status \in {"pending", "processing", "failed"}
      /\ responses[n].status = "failed" => responses[n].error = InjectMsg

C2_Witness ==
  /\ processor = "none"
  /\ \E n \in 1..Len(responses) :
       responses[n].status = "failed" /\ responses[n].error = InjectMsg

\* C3: for an id submitted once, the status getStatus(id) shows only moves
\* pending -> processing -> completed | failed (the record is created pending and
\* may be taken by the drain loop in the same call), and a terminal status
\* changes only by clearCompleted removing the record.
LegalMove(a, b) ==
  \/ a = b
  \/ <<a, b>> \in {<<"absent", "pending">>, <<"absent", "processing">>,
                   <<"pending", "processing">>,
                   <<"processing", "completed">>, <<"processing", "failed">>,
                   <<"completed", "absent">>, <<"failed", "absent">>}

C3_StatusMovesForward ==
  [][\A id \in Ids :
       SubmitCount(id)' <= 1 => LegalMove(getStatus(id), getStatus(id)')]_vars

C3_Witness ==
  \E n \in 1..Len(requests) :
    /\ SubmitCount(requests[n].id) = 1
    /\ responses[n].status = "failed"
    /\ getStatus(requests[n].id) = "absent"

\* C4: in a burst of submissions with distinct priorities to an idle processor,
\* no item of a later batch has a higher priority than an item of an earlier batch.
C4_PriorityOrderAcrossBatches ==
  (DistinctIds /\ DistinctPriorities) =>
    \A m, n \in 1..Len(requests) :
      (enteredBatch[m] # 0 /\ enteredBatch[n] # 0 /\ enteredBatch[m] < enteredBatch[n])
        => requests[m].priority >= requests[n].priority

\* C5: with distinct ids, once an item has reached a terminal state the promise
\* addRequest returned for it eventually settles.
C5_PromiseSettles ==
  \A n \in 1..MaxSubmits :
    (n <= Len(responses) /\ DistinctIds /\ responses[n].status \in Terminal)
      ~> (~DistinctIds \/ (n <= Len(promise) /\ promise[n] # "pending"))

\* C6: an item whose processing throws ends failed, in a step that writes no
\* other item's response; every response in processing still has its own
\* callback waiting to settle it; and the drain loop stays alive while requests
\* are queued.
C6_FailuresIsolated ==
  [][/\ \A n \in 1..Len(responses) :
          (responses[n].status = "processing" /\ responses'[n].status \in Terminal) =>
            /\ responses'[n].status = "failed"
            /\ responses'[n].error = InjectMsg
            /\ \A m \in 1..Len(responses) : m # n => responses'[m] = responses[m]
     /\ \A n \in 1..Len(responses') :
          responses'[n].status = "processing" =>
            \E k \in 1..Len(batch') : batch'[k].obj = n /\ ~batch'[k].done
     /\ Len(queue') > 0 => (isProcessing' /\ loopPc' # "idle")]_vars

C6_Witness ==
  \E j, k \in 1..Len(batch) :
    /\ j # k /\ batch[j].obj # batch[k].obj
    /\ batch[j].done /\ responses[batch[j].obj].status = "failed"
    /\ ~batch[k].done /\ responses[batch[k].obj].status = "processing"

\* C7: with distinct ids the queue holds exactly the requests whose status is
\* pending, so getQueueSize() is their number, and it is 0 once every submitted
\* item is terminal.
C7_QueueIsPending ==
  DistinctIds =>
    /\ {queue[k] : k \in 1..Len(queue)} =
         {n \in 1..Len(responses) : responses[n].status = "pending"}
    /\ getQueueSize = Cardinality({n \in 1..Len(responses) : responses[n].status = "pending"})
    /\ (\A n \in 1..Len(responses) : responses[n].status \in Terminal) => getQueueSize = 0

C7_Witness ==
  /\ DistinctIds /\ Len(requests) >= 3
  /\ \E n \in 1..Len(responses) : responses[n].status = "pending"
  /\ \E n \in 1..Len(responses) : responses[n].status = "failed"
  /\ getQueueSize = 1

(***************************************************************************)
(* Claims about the cache.                                                 *)
(***************************************************************************)
\* C8: the sizes of the entries stored in the cache sum to at most maxSize.
C8_SizeWithinCapacity == SumSizes(cache) <= maxSize

\* C9: a get(k) made when more than ttl has elapsed since the most recent
\* set(k, v, ttl) returns absent and leaves no entry for k.
C9_ExpiresAfterTtl ==
  (/\ ret.op = "get"
   /\ lastSet[ret.key].set
   /\ now > lastSet[ret.key].at + lastSet[ret.key].ttl)
    => (~ret.hit /\ ~HasKey(cache, ret.key))

\* C10: a get(k) made before ttl has elapsed since set(k, v, ttl), with k not
\* deleted, cleared, overwritten or evicted in between, returns v, whatever the
\* size of v.
C10_GetReturnsLiveValue ==
  (/\ ret.op = "get"
   /\ lastSet[ret.key].set
   /\ now < lastSet[ret.key].at + lastSet[ret.key].ttl)
    => (ret.hit /\ ret.data = lastSet[ret.key].data)

C10_Witness ==
  /\ ret.op = "get" /\ ret.hit
  /\ lastSet[ret.key].set
  /\ lastSet[ret.key].at < now
  /\ now < lastSet[ret.key].at + lastSet[ret.key].ttl
  /\ JSONLength(ret.data) > maxSize

\* C11: a set that inserts a new key evicts oldest last-access first (no entry
\* it keeps is older than an entry it evicts) and stops as soon as the new
\* entry fits: the entry it evicted last was needed to make room.
SetStep(k) == lastSet'[k].set /\ lastSet'[k] # lastSet[k]

C11_EvictsOldestUntilFit ==
  [][\A k \in Keys :
       (SetStep(k) /\ ~HasKey(Unexpired(cache), k)) =>
         LET cleaned == Unexpired(cache)
             victims == {i \in 1..Len(cleaned) : ~HasKey(cache', cleaned[i].key)}
             spared == (1..Len(cleaned)) \ victims
             size == cache'[IndexOf(cache', k)].size
         IN /\ \A v \in victims, s \in spared :
                 cleaned[v].timestamp <= cleaned[s].timestamp
            /\ victims # {} =>
                 \E v \in victims :
                   /\ \A w \in victims : cleaned[w].timestamp <= cleaned[v].timestamp
                   /\ SumSizes(cache') + cleaned[v].size > maxSize]_vars

\* C12: no cache operation raises to its caller.
C12_NoOperationRaises == ret.op # "TypeError"

\* C13: generateCacheKey is injective on requests: two requests that differ in
\* provider, prompt or an option value get different keys.
C13_KeyInjective ==
  (cacheKey[1] # NoKey /\ cacheKey[2] # NoKey /\ request[1] # request[2])
    => cacheKey[1] # cacheKey[2]

(***************************************************************************)
(* Rate limiter: claims.                                                   *)
(***************************************************************************)
\* Timestamp ts lies within the trailing window at time t.
InWindow(ts, t) == t - windowSizeMs <= ts /\ ts <= t

InWindowCount(reqs, t) == Cardinality({i \in 1..Len(reqs) : InWindow(reqs[i], t)})

\* C15: with a limit of N >= 1, isAllowed returns false when N recorded
\* timestamps lie within the trailing window, and true again when, of N
\* retained timestamps, the oldest lies outside the trailing window.
C15_AllowedAgainWhenOldestLeaves ==
  [][\A p \in Providers :
       (lret'.op = "isAllowed" /\ lret'.provider = p) =>
         /\ InWindowCount(RequestsOf(p), now) >= requestsPerMinute => ~lret'.allowed
         /\ (Len(RequestsOf(p)) = requestsPerMinute
               /\ ~InWindow(RequestsOf(p)[1], now)) => lret'.allowed]_vars

\* isAllowed has just refused with the oldest of two timestamps on the edge of
\* the window.
C15_Witness ==
  /\ lret.op = "isAllowed" /\ ~lret.allowed
  /\ requestsPerMinute = 2
  /\ Len(RequestsOf(lret.provider)) = 2
  /\ RequestsOf(lret.provider)[1] = now - windowSizeMs

\* C16: with limit 2 and a window of one second, after two addRequest at time t
\* isAllowed returns false before t + window and true from t + window on.
C16_TrueFromWindowEnd ==
  [][\A p \in Providers :
       (/\ lret'.op = "isAllowed" /\ lret'.provider = p
        /\ requestsPerMinute = 2 /\ windowSizeMs = TicksPerSecond
        /\ Len(RequestsOf(p)) = 2
        /\ RequestsOf(p)[1] = RequestsOf(p)[2]) =>
         (lret'.allowed <=> now >= RequestsOf(p)[1] + windowSizeMs)]_vars

\* C17: right after isAllowed or getRateLimitInfo at time now, every retained
\* timestamp lies in [now - windowSize, now], the list is non-decreasing, and
\* the result is computed from the purged list.
C17_RetainedWithinWindow ==
  lret.op \in {"isAllowed", "getRateLimitInfo"} =>
    LET reqs == RequestsOf(lret.provider)
    IN /\ \A i \in 1..Len(reqs) : InWindow(reqs[i], now)
       /\ \A i \in 1..Len(reqs), j \in 1..Len(reqs) : i <= j => reqs[i] <= reqs[j]
       /\ lret.op = "isAllowed" => (lret.allowed <=> Len(reqs) < requestsPerMinute)
       /\ lret.op = "getRateLimitInfo" =>
            (lret.info.remaining > 0 <=> Len(reqs) < requestsPerMinute)

\* getRateLimitInfo has returned with both ends of the window occupied.
C17_Witness ==
  /\ lret.op = "getRateLimitInfo"
  /\ Len(RequestsOf(lret.provider)) = 2
  /\ RequestsOf(lret.provider)[1] = now - windowSizeMs
  /\ RequestsOf(lret.provider)[2] = now

\* C18: getRateLimitInfo returns remaining = max(0, limit - retained),
\* resetTime = oldest retained + windowSize (the current time when none is
\* retained), and retryAfter exactly when remaining is 0: the time until
\* resetTime in whole seconds, rounded up.
C18_InfoFields ==
  lret.op = "getRateLimitInfo" =>
    LET reqs == RequestsOf(lret.provider)
        info == lret.info
    IN /\ info.limit = requestsPerMinute
       /\ info.remaining = (IF requestsPerMinute > Len(reqs)
                            THEN requestsPerMinute - Len(reqs) ELSE 0)
       /\ info.resetTime = (IF reqs = <<>> THEN now ELSE reqs[1] + windowSizeMs)
       /\ info.retryAfter # NoRetry <=> info.remaining = 0
       /\ info.retryAfter # NoRetry =>
            /\ info.retryAfter * TicksPerSecond >= info.resetTime - now
            /\ (info.retryAfter - 1) * TicksPerSecond < info.resetTime - now

\* getRateLimitInfo has reported a retryAfter that was rounded up.
C18_Witness ==
  /\ lret.op = "getRateLimitInfo"
  /\ lret.info.retryAfter # NoRetry
  /\ lret.info.retryAfter * TicksPerSecond > lret.info.resetTime - now

\* C19: waitForSlot returns without suspending when capacity remains; with no
\* capacity left it suspends its caller for the retryAfter seconds that
\* getRateLimitInfo reports at the time of the call, and the caller resumes
\* no earlier.
C19_WaitsRetryAfter ==
  /\ lret.op = "waitForSlot" =>
       LET reqs == RequestsOf(lret.provider)
           suspended == \E s \in sleepers : s.provider = lret.provider /\ s.until = lret.until
       IN /\ Len(reqs) < requestsPerMinute => (lret.until = 0 /\ ~suspended)
          /\ Len(reqs) >= requestsPerMinute =>
               /\ lret.info.remaining = 0
               /\ lret.info.retryAfter # NoRetry
               /\ lret.info.retryAfter * TicksPerSecond >= reqs[1] + windowSizeMs - now
               /\ (lret.info.retryAfter - 1) * TicksPerSecond < reqs[1] + windowSizeMs - now
               /\ IF lret.info.retryAfter = 0
                  THEN lret.until = 0 /\ ~suspended
                  ELSE lret.until = now + lret.info.retryAfter * TicksPerSecond /\ suspended
  /\ lret.op = "resumed" => now >= lret.until

\* A caller has just been suspended by waitForSlot.
C19_Witness ==
  /\ lret.op = "waitForSlot"
  /\ lret.until > now
  /\ \E s \in sleepers : s.provider = lret.provider /\ s.until = lret.until

\* C20: getRateLimiter gives one provider the same instance on every call and
\* two providers different instances; addRequest, isAllowed and
\* getRateLimitInfo on one provider's limiter leave every other provider's
\* timestamps and its admission result unchanged.
C20_ProvidersIndependent ==
  [][/\ \A p \in Providers :
          /\ rateLimiters[p] # 0 => rateLimiters'[p] = rateLimiters[p]
          /\ (lret'.op = "getRateLimiter" /\ lret'.provider = p) =>
               (lret'.instance = rateLimiters'[p] /\ lret'.instance # 0)
     /\ \A p \in Providers, q \in Providers :
          (p # q /\ rateLimiters'[p] # 0) => rateLimiters'[p] # rateLimiters'[q]
     /\ \A p \in Providers, q \in Providers :
          (/\ lret'.op \in {"addRequest", "isAllowed", "getRateLimitInfo"}
           /\ lret'.provider = p /\ q # p /\ rateLimiters[q] # 0) =>
             /\ limiterRequests'[rateLimiters'[q]] = RequestsOf(q)
             /\ InWindowCount(limiterRequests'[rateLimiters'[q]], now')
                  = InWindowCount(RequestsOf(q), now)]_vars

\* A request has just been recorded for one provider while the other
\* provider's limiter holds timestamps of its own.
C20_Witness ==
  /\ lret.op = "addRequest"
  /\ \A p \in Providers : rateLimiters[p] # 0
  /\ \E q \in Providers : q # lret.provider /\ Len(RequestsOf(q)) = 2
  /\ Len(RequestsOf(lret.provider)) = 1

(***************************************************************************)
(* Provider flow: claims.                                                  *)
(***************************************************************************)
\* The timestamps of reqs within the window of length windowSize that ends at t.
TrailingCount(reqs, t) ==
  Cardinality({i \in 1..Len(reqs) : t - windowSizeMs < reqs[i] /\ reqs[i] <= t})

\* C14: under generateCompletion, with any number of callers in flight and
\* any outcomes of their calls, the timestamps of the provider within any
\* trailing window of length windowSize never number more than the limit.
C14_QuotaKept ==
  rateLimiters[Groq] # 0 =>
    \A t \in 1..MaxClock : TrailingCount(RequestsOf(Groq), t) <= requestsPerMinute

(***************************************************************************)
(* Drain loop: claims.                                                     *)
(***************************************************************************)
\* The response objects in status processing.
Processing(resp) == {n \in 1..Len(resp) : resp[n].status = "processing"}

\* The step takes a batch: queue.splice(0, batchSize) has run.
TakesBatch == batchCount' = batchCount + 1

\* C29: a batch holds at most batchSize items, none of lower priority than an
\* item left in the queue, and batch and queue together are what was queued;
\* a batch is taken only when every callback of the batch before has ended
\* with its response terminal; at most batchSize responses are in status
\* processing.
C29_BoundedBatches ==
  [][/\ Len(batch') <= batchSize
     /\ Cardinality(Processing(responses')) <= batchSize
     /\ TakesBatch =>
          /\ Len(batch') >= 1
          /\ \A k \in 1..Len(batch'), m \in 1..Len(queue') :
               requests'[batch'[k].req].priority >= requests'[queue'[m]].priority
          /\ Len(batch') + Len(queue') =
               Len(queue) + (IF Len(requests') > Len(requests) THEN 1 ELSE 0)
          /\ Len(queue') > 0 => Len(batch') = batchSize
          /\ \A k \in 1..Len(batch) :
               /\ batch[k].done
               /\ batch[k].obj # 0 => responses[batch[k].obj].status \in Terminal
          /\ Processing(responses) = {}
    ]_vars

\* The second batch is full and has taken a request submitted after the
\* request of lower priority that is still queued.
C29_Witness ==
  /\ batchCount = 2
  /\ Len(batch) = batchSize
  /\ Len(queue) >= 1
  /\ batch[1].req > queue[1]
  /\ requests[batch[1].req].priority > requests[queue[1]].priority
  /\ Cardinality(Processing(responses)) = batchSize

\* The step is a call of addRequest.
Submits == Len(requests') = Len(requests) + 1

\* C30: isProcessing is set exactly while processQueue is in its loop, and the
\* loop is entered only when it is not set; a submission made while it is set
\* only queues its request and leaves the loop as it stands; the queue is
\* empty whenever the loop is not running; a submission made when the loop
\* is not running enters the loop with its request as the batch.
C30_OneDrainLoop ==
  [][/\ isProcessing' <=> loopPc' # "idle"
     /\ ~isProcessing' => queue' = <<>> /\ batch' = <<>>
     /\ loopStarts' # loopStarts =>
          ~isProcessing /\ loopPc = "idle" /\ loopStarts' = loopStarts + 1 /\ Submits
     /\ (Submits /\ isProcessing) =>
          /\ UNCHANGED <<isProcessing, loopPc, batch, batchCount, loopStarts>>
          /\ Len(queue') = Len(queue) + 1
     /\ (Submits /\ ~isProcessing) =>
          /\ isProcessing' /\ loopPc' = "batch"
          /\ loopStarts' = loopStarts + 1
          /\ Len(batch') = 1 /\ batch'[1].req = Len(requests')
          /\ queue' = <<>>
    ]_vars

\* The loop has stopped once and was entered again by the next submission;
\* a submission made since then waits in the queue.
C30_Witness ==
  /\ loopStarts = 2
  /\ isProcessing /\ loopPc = "batch"
  /\ batchCount = 2
  /\ Len(queue) = 1

(***************************************************************************)
(* Retry handler: claims.                                                  *)
(***************************************************************************)
\* The i-th invocation has settled; it failed with a retryable error.
Settled(i) == calls[i].outcome # Pending
FailedRetryable(i) ==
  Settled(i) /\ ~calls[i].outcome.ok /\ isRetryableError(calls[i].outcome.error)

\* C21: when every attempt fails with a retryable error, the operation is
\* invoked exactly maxRetries + 1 times and retry then throws the error of
\* the last attempt; until then it goes on to a next attempt.
C21_ExhaustionRethrowsLast ==
  (Len(calls) >= 1 /\ \A i \in 1..Len(calls) : FailedRetryable(i)) =>
    IF Len(calls) <= maxRetries
    THEN retryPc = "delay"
    ELSE /\ Len(calls) = maxRetries + 1
         /\ retryPc = "thrown"
         /\ retryRet.kind = "thrown"
         /\ retryRet.error = calls[Len(calls)].outcome.error

\* maxRetries is 2, the operation threw statusCode 503 three times, and the
\* 503 error is thrown.
C21_Witness ==
  /\ maxRetries = 2
  /\ Len(calls) = 3
  /\ \A i \in 1..3 : calls[i].outcome.error = E503 /\ Settled(i)
  /\ retryPc = "thrown"
  /\ retryRet.error = E503

\* C22: an attempt that fails with a non-retryable error is the last one:
\* retry throws that error at once, without a wait, whatever came before.
C22_FatalRaisedAtOnce ==
  \A i \in 1..Len(calls) :
    (Settled(i) /\ ~calls[i].outcome.ok /\ ~isRetryableError(calls[i].outcome.error)) =>
      /\ i = Len(calls)
      /\ retryPc = "thrown"
      /\ retryRet.kind = "thrown"
      /\ retryRet.error = calls[i].outcome.error
      /\ Len(waits) = i - 1
      /\ now = calls[i].settledAt

\* A fatal error on the second attempt, after a retryable one, is thrown at
\* the time it happened.
C22_Witness ==
  /\ Len(calls) = 2
  /\ calls[1].outcome.error = E503
  /\ Settled(2) /\ calls[2].outcome.error = E401 /\ ~calls[2].outcome.ok
  /\ retryPc = "thrown"
  /\ retryRet.error = E401
  /\ calls[2].settledAt > calls[2].startedAt

\* s contains sub from one of its positions on.
RECURSIVE HasSub(_, _)
HasSub(s, sub) ==
  IF Len(s) < Len(sub) THEN FALSE
  ELSE IF \A i \in 1..Len(sub) : s[i] = sub[i] THEN TRUE
  ELSE HasSub(Tail(s), sub)

Sentinel == [absent |-> FALSE, code |-> "EMPTY_AI_RESPONSE", statusCode |-> 0,
             message |-> <<"E", "m", "p", "t", "y", " ", "r", "e", "s", "p", "o", "n", "s", "e", " ", "f", "r", "o", "m", " ", "A", "I">>]

\* C23: isRetryableError(e) is true exactly when e.code is one of the seven
\* retryable codes, or e.statusCode is one of 429, 500, 502, 503, 504, or
\* e.message contains "timeout" or "rate limit"; an absent error and the
\* empty-response sentinel are fatal.
C23_RetryableClassification ==
  handlerRet.op = "isRetryableError" =>
    LET e == handlerRet.error
    IN /\ handlerRet.retryable <=>
            /\ e # NoError
            /\ \/ e.code \in {"ECONNRESET", "ENOTFOUND", "ECONNREFUSED", "ETIMEDOUT",
                              "RATE_LIMITED", "SERVER_ERROR", "TIMEOUT"}
               \/ e.statusCode \in {429, 500, 502, 503, 504}
               \/ HasSub(e.message, <<"t", "i", "m", "e", "o", "u", "t">>)
               \/ HasSub(e.message, <<"r", "a", "t", "e", " ", "l", "i", "m", "i", "t">>)
       /\ e \in {NoError, Sentinel} => ~handlerRet.retryable

\* The empty-response sentinel has been classified as fatal.
C23_Witness ==
  /\ handlerRet.op = "isRetryableError"
  /\ handlerRet.error = Sentinel
  /\ ~handlerRet.retryable

\* The delay of attempt n without jitter and without the cap.
Exponential(n) == baseDelayMs * Pow(backoffMultiplier, n - 1)

\* C24: calculateDelay(n) is at most maxDelay and at least
\* min(baseDelay * backoffMultiplier^(n-1), maxDelay); its jitter lies between
\* 0 and a tenth of baseDelay * backoffMultiplier^(n-1); the delay without
\* jitter does not decrease with n.
C24_DelayBounds ==
  handlerRet.op = "calculateDelay" =>
    LET n == handlerRet.n
    IN /\ handlerRet.delay <= maxDelayMs
       /\ handlerRet.delay >= Min(Exponential(n), maxDelayMs)
       /\ 0 <= handlerRet.jitter
       /\ 10 * handlerRet.jitter <= Exponential(n)
       /\ handlerRet.delay <= Exponential(n) + handlerRet.jitter
       /\ n > 1 => Min(Exponential(n - 1), maxDelayMs) <= Min(Exponential(n), maxDelayMs)

\* A delay of a later attempt with jitter, below the cap.
C24_Witness ==
  /\ handlerRet.op = "calculateDelay"
  /\ handlerRet.n >= 2
  /\ handlerRet.jitter > 0
  /\ handlerRet.delay = Exponential(handlerRet.n) + handlerRet.jitter
  /\ handlerRet.delay < maxDelayMs

\* C27: the operation is invoked at most maxRetries + 1 times; when its k-th
\* invocation is the first to succeed, retry returns that invocation's result
\* and there is no further invocation.
C27_AtMostMaxRetriesPlusOne ==
  /\ Len(calls) <= maxRetries + 1
  /\ \A k \in 1..Len(calls) :
       (Settled(k) /\ calls[k].outcome.ok) =>
         /\ k = Len(calls)
         /\ \A i \in 1..(k - 1) : FailedRetryable(i)
         /\ retryPc = "returned"
         /\ retryRet.kind = "returned"
         /\ retryRet.value = calls[k].outcome.value

\* The last allowed attempt of three succeeded and its result is returned.
C27_Witness ==
  /\ maxRetries = 2
  /\ Len(calls) = 3
  /\ calls[3].outcome.ok /\ calls[3].outcome.value = <<"b">>
  /\ retryPc = "returned"
  /\ retryRet.value = <<"b">>

\* C28: attempt n + 1 starts no earlier than the failure of attempt n plus a
\* delay that calculateDelay(n) returns; every wait follows a failed attempt
\* that is not the last allowed one.
C28_WaitsTheDelay ==
  /\ \A n \in 1..Len(waits) :
       /\ n <= Len(calls) /\ n <= maxRetries
       /\ waits[n].failedAt = calls[n].settledAt
       /\ \E j \in Jitters(n) : waits[n].delay = calculateDelay(n, j)
       /\ n < Len(calls) => calls[n + 1].startedAt >= calls[n].settledAt + waits[n].delay
  /\ Len(calls) >= 1 =>
       Len(waits) = IF retryPc = "delay" THEN Len(calls) ELSE Len(calls) - 1
  /\ retryPc \in {"returned", "thrown"} => now = calls[Len(calls)].settledAt

\* The third attempt has started late, after two delays of which the second
\* is longer.
C28_Witness ==
  /\ Len(calls) = 3
  /\ waits[2].delay > waits[1].delay
  /\ calls[3].startedAt > calls[2].settledAt + waits[2].delay
  /\ calls[2].settledAt > calls[2].startedAt

(***************************************************************************)
(* generateCompletion: claims.                                             *)
(***************************************************************************)
\* The step is caller c's generateCompletion reaching its cache lookup:
\* straight away when the limiter allows the call, else on resuming from
\* waitForSlot.
LooksUp(c) ==
  \/ /\ Free(c)
     /\ flow'[c].pc \notin {"idle", "resume", "waiting"}
     /\ Completion(c, flow'[c].key)
  \/ AfterSlot(c)

\* globalCache.get(key) would return a truthy value now.
Cached(key) ==
  /\ HasKey(cache, key)
  /\ ~isExpired(cache[IndexOf(cache, key)])
  /\ cache[IndexOf(cache, key)].data # <<>>

\* s is what a purge leaves of t: no timestamp was added.
IsSuffix(s, t) == \E i \in 0..Len(t) : s = SubSeq(t, i + 1, Len(t))

\* C25: generateCompletion checks the rate limiter, then looks the key up,
\* then makes the retry-wrapped call, then stores. A call the limiter
\* refuses suspends without touching the cache; a hit returns the cached
\* value with no provider call and no timestamp recorded; a miss sends the
\* provider call; a call that succeeds returns its result with the result
\* stored under its key; nothing is stored except by a call that succeeds.
C25_FixedOrder ==
  [][\A c \in Callers :
       LET key == flow'[c].key
           after == limiterRequests'[rateLimiters[Groq]]
       IN /\ (Free(c) /\ flow'[c].pc # "idle" /\ Completion(c, key)
               /\ Len(Purge(RequestsOf(Groq), now - windowSizeMs)) >= requestsPerMinute) =>
              /\ flow'[c].pc \in {"resume", "waiting"}
              /\ flow'[c].attempt = 0
              /\ cache' = cache
          /\ (LooksUp(c) /\ Cached(key)) =>
              /\ flow'[c].pc = "done"
              /\ flow'[c].attempt = 0
              /\ flow'[c].value = cache[IndexOf(cache, key)].data
              /\ IsSuffix(after, RequestsOf(Groq))
          /\ (LooksUp(c) /\ ~Cached(key)) =>
              /\ flow'[c].pc = "calling"
              /\ flow'[c].attempt = 1
              /\ ~HasKey(cache', key)
              /\ after # <<>> /\ after[Len(after)] = now
          /\ (flow[c].pc = "calling" /\ flow'[c].pc = "done") =>
              /\ flow'[c].value = Content
              /\ HasKey(cache', key)
              /\ cache'[IndexOf(cache', key)].data = flow'[c].value
          /\ (\E k \in Keys : HasKey(cache', k) /\ ~HasKey(cache, k)) =>
              \E d \in Callers : flow[d].pc = "calling" /\ flow'[d].pc = "done"
    ]_vars

\* One caller's call was sent to the provider and its result stored; the
\* other caller then got that value from the cache without a provider call,
\* and the limiter holds the one timestamp.
C25_Witness ==
  \E c, d \in Callers :
    /\ flow[c].pc = "done" /\ flow[c].attempt = 1
    /\ flow[d].pc = "done" /\ flow[d].attempt = 0
    /\ flow[d].key = flow[c].key
    /\ flow[d].value = Content
    /\ Len(RequestsOf(Groq)) = 1

\* C26: a call that reaches its cache lookup while another call for the same
\* key is in flight, and finds nothing cached, sends its own provider call
\* and leaves the other call as it is.
C26_NoSingleFlight ==
  [][\A c, d \in Callers :
       (/\ c # d
        /\ flow[d].pc \in {"calling", "backoff"}
        /\ LooksUp(c)
        /\ flow'[c].key = flow[d].key
        /\ ~Cached(flow[d].key)) =>
         /\ flow'[c].pc = "calling"
         /\ flow'[c].attempt = 1
         /\ flow'[d] = flow[d]
    ]_vars

\* Two calls for the same key, made at the same instant, have both missed the
\* cache and both have their provider call out.
C26_Witness ==
  \E c, d \in Callers :
    /\ c # d
    /\ flow[c].pc = "calling" /\ flow[d].pc = "calling"
    /\ flow[c].key = flow[d].key
    /\ flow[c].attempt = 1 /\ flow[d].attempt = 1
    /\ ~HasKey(cache, flow[c].key)
    /\ RequestsOf(Groq) = <<now, now>>

(***************************************************************************)
(* Cache statistics: claims.                                               *)
(***************************************************************************)
\* C38: getStats().currentSize is the sum of the sizes of the stored entries
\* and getStats().size is their number; currentSize is 0 when the cache is
\* empty.
C38_StatsMatchEntries ==
  /\ getStats.currentSize = SumSizes(cache)
  /\ getStats.size = Len(cache)
  /\ Len(cache) = 0 => getStats.currentSize = 0

(***************************************************************************)
(* Check-then-append: claims.                                              *)
(***************************************************************************)
\* C36: when every addRequest() directly follows an isAllowed() that returned
\* true, each limiter holds at most requestsPerMinute timestamps within the
\* trailing window, at every moment.
C36_CheckedQuotaKept ==
  \A p \in Providers :
    rateLimiters[p] # 0 =>
      /\ InWindowCount(RequestsOf(p), now) <= requestsPerMinute
      /\ \A t \in 1..MaxClock : TrailingCount(RequestsOf(p), t) <= requestsPerMinute

\* A limiter at its limit of 2, the last request admitted now with an older
\* one still in the window.
C36_Witness ==
  \E p \in Providers :
    /\ rateLimiters[p] # 0
    /\ requestsPerMinute = 2
    /\ lret.op = "addRequest" /\ lret.provider = p
    /\ Len(RequestsOf(p)) = 2
    /\ RequestsOf(p)[1] < now /\ RequestsOf(p)[2] = now
    /\ now > 1 + windowSizeMs

(***************************************************************************)
(* Waiting for a slot: claims.                                             *)
(***************************************************************************)
\* isAllowed() would return true on the list reqs at time t.
AllowedAt(reqs, t) == Len(Purge(reqs, t - windowSizeMs)) < requestsPerMinute

\* C37: a waitForSlot() called with no remaining capacity, with no
\* addRequest() until it returns, returns at a moment at which isAllowed()
\* is true: both when it returns without suspending and when its timer fires.
C37_AllowedOnReturn ==
  [][/\ (waitForSlot(Groq) /\ lret'.info.remaining = 0 /\ lret'.until = 0) =>
          AllowedAt(limiterRequests'[rateLimiters[Groq]], now)
     /\ \A s \in sleepers :
          (SlotTimer(s) /\ RequestsOf(Groq) = s.reqs) => AllowedAt(RequestsOf(Groq), now)
    ]_vars


(***************************************************************************)
(* generateBatch: claims.                                                  *)
(***************************************************************************)
\* addRequest and the state function generateBatch folds agree.
SubmittedIsAddRequest ==
  [][\A id \in Ids, p \in Priorities :
       addRequest(id, p) =>
         LET st == Submitted(BatchState, id, p)
         IN <<requests', responses', queue', results', isProcessing', batch', loopPc',
              promise', enteredBatch', batchCount', loopStarts'>> =
            <<st.requests, st.responses, st.queue, st.results, st.isProcessing,
              st.batch, st.loopPc, st.promise, st.enteredBatch, st.batchCount,
              st.loopStarts>>]_vars

\* C39: generateBatch gives every request an id that no record of the shared
\* processor has, ids of another generateBatch call of the same millisecond
\* included: no record is replaced and no status goes back to pending.
C39_BatchIdsFresh ==
  [][\A prios \in PriorityLists :
       generateBatch(prios) =>
         \A id \in Ids :
           results[id] # 0 =>
             /\ results'[id] = results[id]
             /\ \A i \in 0..(Len(prios) - 1) : BatchId(now, i) # id]_vars


(***************************************************************************)
(* Order within one priority: claims.                                      *)
(***************************************************************************)
SamePriority(m, n) == requests[m].priority = requests[n].priority

\* C33: requests of equal priority leave the queue in the order they were
\* submitted, whatever requests of other priorities are submitted between them:
\* they stand in the queue and in a batch in submission order, and the later one
\* enters no earlier batch than the earlier one.
C33_FifoWithinPriority ==
  /\ \A i \in 1..Len(queue), j \in 1..Len(queue) :
       (i < j /\ SamePriority(queue[i], queue[j])) => queue[i] < queue[j]
  /\ \A k \in 1..Len(batch), l \in 1..Len(batch) :
       (k < l /\ SamePriority(batch[k].req, batch[l].req)) => batch[k].req < batch[l].req
  /\ \A m \in 1..Len(requests), n \in 1..Len(requests) :
       (m < n /\ SamePriority(m, n) /\ enteredBatch[n] # 0) =>
         (enteredBatch[m] # 0 /\ enteredBatch[m] <= enteredBatch[n])

\* Two requests of one priority waited in the queue together, a request of
\* another priority was submitted too, and the two were taken by different
\* batches, the earlier one first.
C33_Witness ==
  \E m \in 1..Len(requests), n \in 1..Len(requests), o \in 1..Len(requests) :
    /\ m < n /\ SamePriority(m, n) /\ ~SamePriority(m, o)
    /\ enteredBatch[m] >= 2
    /\ enteredBatch[n] > enteredBatch[m]


(***************************************************************************)
(* clearCompleted: claims.                                                 *)
(***************************************************************************)
\* C34: clearCompleted removes exactly the records whose status is completed or
\* failed; the records that are pending or processing stay, and the queue, the
\* batch in flight and the loop's running state are as before.
C34_ClearsOnlyFinished ==
  [][clearCompleted =>
       /\ \A id \in Ids :
            results'[id] =
              IF results[id] # 0 /\ responses[results[id]].status \in {"completed", "failed"}
              THEN 0 ELSE results[id]
       /\ UNCHANGED <<queue, isProcessing, loopPc, batch, requests, responses>>
    ]_vars

\* A finished record has been removed while a request is in the queue with its
\* pending record and another is in a batch with its processing record.
C34_Witness ==
  /\ \E n \in 1..Len(requests) :
       responses[n].status \in Terminal /\ results[requests[n].id] = 0
  /\ \E n \in 1..Len(requests) :
       responses[n].status = "pending" /\ results[requests[n].id] = n
  /\ \E n \in 1..Len(requests) :
       responses[n].status = "processing" /\ results[requests[n].id] = n
  /\ Len(queue) > 0 /\ isProcessing


(***************************************************************************)
(* Every request is processed: claims.                                     *)
(***************************************************************************)
\* The record the processor has for the n-th submission's id is finished.
Finished(n) ==
  /\ n <= Len(requests)
  /\ enteredBatch[n] # 0
  /\ results[requests[n].id] # 0
  /\ responses[results[requests[n].id]].status \in Terminal

\* C31: when every processing call returns or throws, every submitted request
\* is taken by a batch and its record reaches completed or failed; a request
\* in the queue always has a running drain loop.
C31_EveryItemFinishes ==
  /\ [](Len(queue) > 0 => isProcessing)
  /\ \A n \in 1..MaxSubmits : (n <= Len(requests)) ~> Finished(n)

\* The loop has stopped with every request finished, one of them taken from the
\* queue by a later batch.
C31_Witness ==
  /\ ~isProcessing
  /\ Len(requests) >= 2
  /\ \A n \in 1..Len(requests) : Finished(n)
  /\ \E n \in 1..Len(requests) : enteredBatch[n] >= 2


(***************************************************************************)
(* A completion that fails: claims.                                        *)
(***************************************************************************)
\* C35: when the retry-wrapped call of generateCompletion ends in an error,
\* after an error that is not retryable or after the last retry, the caller
\* receives that error as it was raised, and the call stores nothing: the cache
\* is as it was before, so the key has no entry it did not have.
C35_FailureStoresNothing ==
  [][\A c \in Callers :
       /\ (flow[c].pc = "calling" /\ flow'[c].pc = "failed") =>
            /\ \E o \in Outcomes \ {"content"} :
                 /\ Response(c, o)
                 /\ ShouldThrow(flow[c].attempt, ErrorOf(o))
                 /\ flow'[c].error = ErrorOf(o)
            /\ cache' = cache /\ currentSize' = currentSize
            /\ HasKey(cache', flow[c].key) = HasKey(cache, flow[c].key)
       /\ (flow[c].pc = "calling" /\ flow'[c].pc = "backoff") =>
            /\ ~ShouldThrow(flow[c].attempt, E503)
            /\ cache' = cache
       /\ flow[c].pc = "failed" => flow'[c] = flow[c]
    ]_vars

\* One call has failed on the 503 of its last retry and another on a 401 at
\* its first attempt, and the cache has no entry for the key of either.
C35_Witness ==
  \E c, d \in Callers :
    /\ flow[c].pc = "failed" /\ flow[c].error = E503 /\ flow[c].attempt = maxRetries + 1
    /\ flow[d].pc = "failed" /\ flow[d].error = E401 /\ flow[d].attempt = 1
    /\ ~HasKey(cache, flow[c].key) /\ ~HasKey(cache, flow[d].key)


(***************************************************************************)
(* The delay between batches: claims.                                      *)
(***************************************************************************)
\* C32: when requests remain in the queue at the end of a batch, the next
\* batch enters processing no earlier than processingDelayMs after the last
\* request of the batch became completed or failed; when the queue is empty at
\* the end of a batch the loop stops without waiting, and a request submitted
\* then enters processing at once.
C32_DelayBetweenBatches ==
  [][/\ (AfterBatchAt /\ Len(queue) > 0) =>
          (loopPc' = "delay" /\ isProcessing' /\ delayUntil' >= settledAt + processingDelayMs)
     /\ (AfterDelayAt /\ batchCount' > batchCount) =>
          (now >= settledAt + processingDelayMs /\ tookAt' = now)
     /\ (AfterBatchAt /\ Len(queue) = 0) =>
          (loopPc' = "idle" /\ ~isProcessing' /\ delayUntil' = 0)
     /\ \A p \in Priorities :
          (addRequestAt(p) /\ loopPc = "idle") => (loopPc' = "batch" /\ tookAt' = now)
    ]_vars

\* In one run of the loop a second batch has been taken exactly
\* processingDelayMs after the first one's last request finished, with a delay
\* of more than one tick.
C32_Witness ==
  /\ loopPc = "batch"
  /\ loopStarts = 1 /\ batchCount = 2
  /\ \A k \in 1..Len(batch) : ~batch[k].done
  /\ processingDelayMs > 1
  /\ tookAt = settledAt + processingDelayMs

====
